---- MODULE Spec2Model ----
(***************************************************************************)
(* A model of the Free AugmentCode Data Cleaner: the backup store          *)
(* (backup_manager.py), the SQLite cleaner (database_cleaner.py), the      *)
(* cleanup orchestrator (data_cleaner.py) and the GUI's worker threads     *)
(* (main.py), account files (account_cleaner.py), process termination      *)
(* (utils.py) and configuration files (config_manager.py).                 *)
(***************************************************************************)
EXTENDS Integers, Sequences, FiniteSets, TLC

(***************************************************************************)
(* Bounds of the model.                                                    *)
(***************************************************************************)
\* seconds the wall clock may advance (one backup directory name per second)
MaxClock == 1
\* rows a table holds at most
MaxRows == 3

(***************************************************************************)
(* Values.                                                                 *)
(***************************************************************************)
\* a path that does not exist on disk
Absent == [id |-> "absent", email |-> <<>>, tables |-> <<>>]
\* backup_manifest.json missing or unreadable (safe_read_json gives None)
NoManifest == [readable |-> FALSE, items |-> <<>>]
\* relative_path=None of backup_file
None == <<>>

\* configuration / account files of the product, as path components
Paths == { <<"a", "cfg.json">>, <<"b", "cfg.json">>, <<"a", "user.json">> }

\* what a configuration file holds: one telemetry id and one e-mail field
IdValues == {"old_a", "old_b", "new"}
EmailValues == {<<"a", "@", "x", ".", "i", "o">>, <<"b", "@", "x", ".", "i", "o">>,
                <<"[", "R", "E", "M", "O", "V", "E", "D", "]">>}
ConfigFile(id, email) == [id |-> id, email |-> email, tables |-> <<>>]
Contents == { ConfigFile(id, email) : id \in IdValues, email \in EmailValues }

\* what a database file holds: its tables
DbFile(tables) == [id |-> "db", email |-> <<>>, tables |-> tables]

\* the database files of the product
DbPaths == { <<"a", "state.db">>, <<"b", "state.db">> }
AllPaths == Paths \cup DbPaths

\* the names of backup directories: Backup_<second>
DirIds == 0..MaxClock

VARIABLES
    files,        \* the disk: path -> content, or Absent
    clock,        \* datetime.now(), in seconds
    dirs,         \* backup directories that exist under backup_root
    manifests,    \* backup directory -> its manifest (readable, items)
    store,        \* backed-up copies: destination path -> content, or Absent
    rt,           \* the caller of the backup manager: a round trip, or the backup calls of a run
    dbc,          \* one call of clean_database: its position and locals
    run,          \* one run of perform_cleanup: its position, locals and status
    gui,          \* the window of main.py and the worker threads it started
    acct,         \* one account file under _clean_account_file: content and passes
    cleaner,      \* the FreeAugmentCodeCleaner object: status, discovery results, calls under way
    term,         \* one call of terminate_augmentcode_processes: locals and processes
    cfg           \* one configuration file under search_for_telemetry_ids / modify_telemetry_id

fsVars == <<files, clock, dirs, manifests, store>>
\* the variables of the operations a specification does not exercise
idleVars == <<acct, cleaner, term, cfg>>
vars == <<files, clock, dirs, manifests, store, rt, dbc, run, gui, acct, cleaner, term, cfg>>

(***************************************************************************)
(* backup_manager.py                                                       *)
(***************************************************************************)
\* Path.name: the last component
name(p) == p[Len(p)]

\* st_size of a file with content c
Size(c) == Len(c.email) + Len(c.tables)

\* the places a backup copy can be written to
Categories == {"files", "config_files", "account_files", "database"}
Dests == { <<d, c, n>> : d \in DirIds, c \in Categories, n \in {name(p) : p \in AllPaths} }

\* backup_file's dest_file
DestFile(source_file, backup_dir, relative_path) ==
    IF relative_path # None
    THEN <<backup_dir>> \o relative_path
    ELSE <<backup_dir, "files", name(source_file)>>

\* _update_manifest: append, unless the manifest cannot be read
UpdateManifest(mf, backup_dir, item_info) ==
    IF mf[backup_dir].readable
    THEN [mf EXCEPT ![backup_dir].items = Append(@, item_info)]
    ELSE mf

\* _update_manifest when safe_write_json cannot write the manifest back (its
\* result is ignored). fault "manifest_open": open(path, 'w') raises, the
\* file is left as it was; "manifest_write": open has truncated the file
\* and json.dump raises, what is left cannot be read again
UpdateManifestFault(mf, backup_dir, item_info, fault) ==
    IF ~mf[backup_dir].readable
    THEN mf
    ELSE IF fault = "manifest_open"
    THEN mf
    ELSE IF fault = "manifest_write"
    THEN [mf EXCEPT ![backup_dir] = NoManifest]
    ELSE UpdateManifest(mf, backup_dir, item_info)

\* create_timestamped_backup_dir at second `now`; writeOk is whether
\* safe_write_json could write the manifest (its result is ignored)
CreateTimestampedBackupDir(ds, mf, now, writeOk) ==
    [ dir |-> now,
      dirs |-> ds \cup {now},
      manifests |-> IF writeOk
                    THEN [mf EXCEPT ![now] = [readable |-> TRUE, items |-> <<>>]]
                    ELSE mf ]

\* backup_file. fault: "none", "copy" (shutil.copy2 raises, caught),
\* "mkdir" (dest_file.parent.mkdir raises, outside the try), or one of the
\* faults of UpdateManifestFault
BackupFile(fs, st, mf, source_file, backup_dir, relative_path, fault) ==
    LET dest_file == DestFile(source_file, backup_dir, relative_path) IN
    IF fs[source_file] = Absent
    THEN [ret |-> "false", store |-> st, manifests |-> mf]
    ELSE IF fault = "mkdir"
    THEN [ret |-> "raise", store |-> st, manifests |-> mf]
    ELSE IF fault = "copy"
    THEN [ret |-> "false", store |-> st, manifests |-> mf]
    ELSE [ ret |-> "true",
           store |-> [st EXCEPT ![dest_file] = fs[source_file]],
           manifests |-> UpdateManifestFault(mf, backup_dir,
                            [ type |-> "file",
                              source |-> source_file,
                              destination |-> dest_file,
                              size |-> Size(fs[source_file]) ], fault) ]

\* the files a backed-up directory holds: source.exists() of a directory
\* item, and what shutil.copytree copies back
CopiedUnder(st, dest_dir) ==
    { d \in DOMAIN st : /\ Len(d) = Len(dest_dir) + 1
                        /\ SubSeq(d, 1, Len(dest_dir)) = dest_dir
                        /\ st[d] # Absent }

\* the loop of restore_from_backup over the manifest's items, from item i on:
\* the disk afterwards and success_count. A file item is copied back over
\* its source; a directory item replaces its source directory (rmtree, then
\* copytree); an item whose backup copy is gone is skipped.
RECURSIVE RestoreItems(_, _, _, _, _)
RestoreItems(items, i, fs, st, success_count) ==
    IF i > Len(items)
    THEN [files |-> fs, success_count |-> success_count]
    ELSE LET item == items[i] IN
         IF item.type = "file" /\ st[item.destination] # Absent
         THEN RestoreItems(items, i + 1,
                           [fs EXCEPT ![item.source] = st[item.destination]],
                           st, success_count + 1)
         ELSE IF item.type = "directory" /\ CopiedUnder(st, item.destination) # {}
         THEN RestoreItems(items, i + 1,
                           [p \in DOMAIN fs |->
                              IF p[1] # item.source[1] THEN fs[p]
                              ELSE IF item.destination \o <<name(p)>> \in CopiedUnder(st, item.destination)
                              THEN st[item.destination \o <<name(p)>>]
                              ELSE Absent],
                           st, success_count + 1)
         ELSE RestoreItems(items, i + 1, fs, st, success_count)

\* a restore that counts the manifest's items and copies nothing back
RestoreFromBackupNoCopy(fs, st, mf, backup_dir) ==
    [ret |-> mf[backup_dir].readable /\ mf[backup_dir].items # <<>>, files |-> fs]

\* restore_from_backup
RestoreFromBackup(fs, st, mf, backup_dir) ==
    IF ~mf[backup_dir].readable
    THEN [ret |-> FALSE, files |-> fs]
    ELSE LET r == RestoreItems(mf[backup_dir].items, 1, fs, st, 0) IN
         [ret |-> r.success_count > 0, files |-> r.files]

(***************************************************************************)
(* Text. A string is a tuple of characters, so that substring tests        *)
(* (str.__contains__, SQL LIKE '%..%') are computed, not assumed.          *)
(***************************************************************************)
LowerCase == <<"a", "b", "c", "d", "e", "f", "g", "h", "i", "j", "k", "l", "m", "n", "o", "p", "q", "r", "s", "t", "u", "v", "w", "x", "y", "z">>
UpperCase == <<"A", "B", "C", "D", "E", "F", "G", "H", "I", "J", "K", "L", "M", "N", "O", "P", "Q", "R", "S", "T", "U", "V", "W", "X", "Y", "Z">>

\* one character of str.lower()
LowerChar(ch) ==
    IF \E i \in 1..26 : UpperCase[i] = ch
    THEN LowerCase[CHOOSE i \in 1..26 : UpperCase[i] = ch]
    ELSE ch

\* one character of str.upper()
UpperChar(ch) ==
    IF \E i \in 1..26 : LowerCase[i] = ch
    THEN UpperCase[CHOOSE i \in 1..26 : LowerCase[i] = ch]
    ELSE ch

\* str.lower()
Lower(s) == [i \in 1..Len(s) |-> LowerChar(s[i])]

\* str.upper()
Upper(s) == [i \in 1..Len(s) |-> UpperChar(s[i])]

\* needle in hay
Contains(hay, needle) ==
    \E i \in 0..(Len(hay) - Len(needle)) :
        \A j \in 1..Len(needle) : hay[i + j] = needle[j]

\* hay ends with needle (the regex .*needle$)
EndsWith(hay, needle) ==
    /\ Len(hay) >= Len(needle)
    /\ \A j \in 1..Len(needle) : hay[Len(hay) - Len(needle) + j] = needle[j]

\* any(pattern in s for pattern in patterns)
ContainsAny(s, patterns) == \E p \in patterns : Contains(s, p)

(***************************************************************************)
(* SQLite as database_cleaner.py uses it through Python's sqlite3.         *)
(* A database is a sequence of tables; a table has a name, columns (name,  *)
(* declared type), rows in rowid order, and may carry a BEFORE DELETE      *)
(* trigger that RAISEs (ABORT). A cell is NULL, an integer or a text.      *)
(* A connection holds the database file, its own view of it and whether a  *)
(* transaction is open.                                                    *)
(***************************************************************************)
Null == [t |-> "null", v |-> <<>>]
IntCell(v) == [t |-> "int", v |-> v]
TextCell(v) == [t |-> "text", v |-> v]

\* sqlite3.connect(db_path)
Connect(db) == [file |-> db, work |-> db, in_transaction |-> FALSE]

\* characters an unquoted SQL identifier may hold; the f-strings of
\* database_cleaner.py interpolate table and column names unquoted
IdentChars == { LowerCase[i] : i \in 1..26 } \cup { UpperCase[i] : i \in 1..26 }
                \cup {"_", "0", "1", "2", "3", "4", "5", "6", "7", "8", "9"}
SqlIdentOk(s) == Len(s) > 0 /\ \A i \in 1..Len(s) : s[i] \in IdentChars

TableExists(db, tname) == \E i \in 1..Len(db) : db[i].name = tname
TableIndex(db, tname) == CHOOSE i \in 1..Len(db) : db[i].name = tname

\* the rows of a sequence whose index is not in doomed, in order
KeepRows(rows, doomed) ==
    LET keep == { i \in 1..Len(rows) : i \notin doomed } IN
    [ k \in 1..Cardinality(keep) |->
        rows[CHOOSE i \in keep : Cardinality({ j \in keep : j <= i }) = k] ]

\* cursor.execute("PRAGMA table_info(<tname>);"): the columns, none for a
\* table that does not exist, a syntax error for a name that needs quoting
PragmaTableInfo(db, tname) ==
    IF ~SqlIdentOk(tname)
    THEN [err |-> "OperationalError", columns |-> <<>>]
    ELSE IF TableExists(db, tname)
    THEN [err |-> "ok", columns |-> db[TableIndex(db, tname)].cols]
    ELSE [err |-> "ok", columns |-> <<>>]

\* cursor.execute("DELETE FROM <tname> WHERE ..."), doomed being the rows
\* the WHERE clause selects. The statement is prepared first (a failure
\* there opens no transaction); sqlite3 then opens a transaction before
\* running a DELETE; a trigger that RAISEs fails the statement with
\* IntegrityError and leaves the transaction open.
ExecDelete(cn, tname, doomed) ==
    IF ~SqlIdentOk(tname) \/ ~TableExists(cn.work, tname)
    THEN [cn |-> cn, err |-> "OperationalError", rowcount |-> 0]
    ELSE LET i == TableIndex(cn.work, tname) IN
         IF cn.work[i].trigger /\ doomed # {}
         THEN [ cn |-> [cn EXCEPT !.in_transaction = TRUE],
                err |-> "IntegrityError", rowcount |-> 0 ]
         ELSE [ cn |-> [cn EXCEPT !.in_transaction = TRUE,
                                  !.work[i].rows = KeepRows(@, doomed)],
                err |-> "ok", rowcount |-> Cardinality(doomed) ]

\* cursor.execute("VACUUM;"): refused inside a transaction
ExecVacuum(cn) ==
    IF cn.in_transaction THEN "OperationalError" ELSE "ok"

\* conn.commit(), also what leaving `with conn:` without an exception does
Commit(cn) == [cn EXCEPT !.file = cn.work, !.in_transaction = FALSE]

\* what leaving `with conn:` with an exception does
Rollback(cn) == [cn EXCEPT !.work = cn.file, !.in_transaction = FALSE]

\* <col> LIKE '%keyword%': case-insensitive, never true of NULL
Like(cell, keyword) ==
    cell.t # "null" /\ Contains(Lower(cell.v), Lower(keyword))

\* 'TEXT' in type.upper() or 'VARCHAR' in type.upper() or 'CHAR' in type.upper()
IsTextType(type) ==
    ContainsAny(Upper(type), {<<"T", "E", "X", "T">>, <<"V", "A", "R", "C", "H", "A", "R">>, <<"C", "H", "A", "R">>})

\* the indexes of the text-like columns
TextColumns(columns) ==
    { c \in 1..Len(columns) : IsTextType(columns[c].type) }

(***************************************************************************)
(* database_cleaner.py                                                     *)
(***************************************************************************)
\* _is_potential_id_column: re.search of the id patterns, ignoring case
IsPotentialIdColumn(column_name) ==
    LET n == Lower(column_name) IN
    \/ EndsWith(n, <<"i", "d">>)
    \/ ContainsAny(n, { <<"d", "e", "v", "i", "c", "e">>, <<"m", "a", "c", "h", "i", "n", "e">>, <<"c", "l", "i", "e", "n", "t">>, <<"t", "e", "l", "e", "m", "e", "t", "r", "y">>,
                        <<"s", "e", "s", "s", "i", "o", "n">>, <<"u", "s", "e", "r">>, <<"g", "u", "i", "d">>, <<"u", "u", "i", "d">>, <<"u", "n", "i", "q", "u", "e">> })

\* _analyze_table: an SQL error leaves the table's info empty
AnalyzeTable(db, table_name) ==
    LET info == PragmaTableInfo(db, table_name)
        columns == info.columns
    IN  [ name |-> table_name,
          columns |-> columns,
          text_columns |-> TextColumns(columns),
          potential_id_columns |->
              { c \in 1..Len(columns) : IsPotentialIdColumn(columns[c].name) },
          row_count |-> IF info.err = "ok" /\ TableExists(db, table_name)
                        THEN Len(db[TableIndex(db, table_name)].rows)
                        ELSE 0 ]

\* _is_potential_cleanup_target
IsPotentialCleanupTarget(table_info) ==
    \/ ContainsAny(Lower(table_info.name),
                   { <<"a", "c", "c", "o", "u", "n", "t">>, <<"u", "s", "e", "r">>, <<"s", "e", "s", "s", "i", "o", "n">>, <<"l", "o", "g", "i", "n">>, <<"a", "u", "t", "h">>,
                     <<"t", "e", "l", "e", "m", "e", "t", "r", "y">>, <<"a", "n", "a", "l", "y", "t", "i", "c", "s">>, <<"l", "o", "g">>, <<"h", "i", "s", "t", "o", "r", "y">>,
                     <<"w", "o", "r", "k", "s", "p", "a", "c", "e">>, <<"p", "r", "o", "j", "e", "c", "t">>, <<"s", "e", "t", "t", "i", "n", "g">>, <<"p", "r", "e", "f", "e", "r", "e", "n", "c", "e">> })
    \/ table_info.potential_id_columns # {}
    \/ (table_info.text_columns # {} /\ table_info.row_count > 0)

\* the names in sqlite_master, in order
TableNames(db) == [i \in 1..Len(db) |-> db[i].name]

\* analyze_database(...)['potential_cleanup_targets'], as table names
PotentialCleanupTargets(db) ==
    LET IsTarget(n) == IsPotentialCleanupTarget(AnalyzeTable(db, n)) IN
    SelectSeq(TableNames(db), IsTarget)

\* _delete_records_with_keyword: sqlite3.Error is logged and gives 0
DeleteRecordsWithKeyword(cn, table_name, keyword) ==
    LET info == PragmaTableInfo(cn.work, table_name)
        text_columns == TextColumns(info.columns)
    IN  IF info.err # "ok"
        THEN [cn |-> cn, deleted |-> 0, sql_error |-> TRUE]
        ELSE IF text_columns = {}
        THEN [cn |-> cn, deleted |-> 0, sql_error |-> FALSE]
        ELSE LET rows == cn.work[TableIndex(cn.work, table_name)].rows
                 doomed == { r \in 1..Len(rows) :
                               \E col \in text_columns : Like(rows[r][col], keyword) }
                 d == ExecDelete(cn, table_name, doomed)
             IN  [ cn |-> d.cn,
                   deleted |-> IF d.err = "ok" THEN d.rowcount ELSE 0,
                   sql_error |-> d.err # "ok" ]

\* the loop of _remove_augment_records over tables_to_clean, from table i on
RECURSIVE DeleteFromTables(_, _, _)
DeleteFromTables(c, tables_to_clean, i) ==
    IF i > Len(tables_to_clean)
    THEN c
    ELSE LET d == DeleteRecordsWithKeyword(c.cn, tables_to_clean[i], <<"a", "u", "g", "m", "e", "n", "t">>) IN
         DeleteFromTables([c EXCEPT !.cn = d.cn,
                                    !.sql_error = @ \/ d.sql_error],
                          tables_to_clean, i + 1)

\* _remove_augment_records; analyze_database reads the file over a
\* connection of its own
RemoveAugmentRecords(c, options) ==
    LET tables_to_clean ==
            IF options.tables_to_clean # <<>>
            THEN options.tables_to_clean
            ELSE PotentialCleanupTargets(c.cn.file)
    IN  [c |-> DeleteFromTables(c, tables_to_clean, 1), ret |-> TRUE]

\* the email-like columns of _clean_account_table, in column order
EmailColumns(columns) ==
    SelectSeq([i \in 1..Len(columns) |-> i],
              LAMBDA i : ContainsAny(Lower(columns[i].name),
                                     { <<"e", "m", "a", "i", "l">>, <<"m", "a", "i", "l">>, <<"e", "_", "m", "a", "i", "l">> }))

\* the loop of _clean_account_table over email_columns, from column k on:
\* DELETE FROM <table> WHERE <email_col> = target_email
RECURSIVE DeleteByEmailColumns(_, _, _, _, _)
DeleteByEmailColumns(cn, table_name, email_columns, k, target_email) ==
    IF k > Len(email_columns)
    THEN [cn |-> cn, sql_error |-> FALSE]
    ELSE LET rows == cn.work[TableIndex(cn.work, table_name)].rows
             col == email_columns[k]
             doomed == { r \in 1..Len(rows) : rows[r][col] = TextCell(target_email) }
             d == ExecDelete(cn, table_name, doomed)
         IN  IF d.err # "ok"
             THEN [cn |-> d.cn, sql_error |-> TRUE]
             ELSE DeleteByEmailColumns(d.cn, table_name, email_columns, k + 1,
                                       target_email)

\* a cleanup that empties the table whatever the target email
CleanAccountTableAll(cn, table_name, target_email) ==
    IF ~SqlIdentOk(table_name) \/ ~TableExists(cn.work, table_name)
    THEN [cn |-> cn, sql_error |-> TRUE]
    ELSE LET d == ExecDelete(cn, table_name,
                             1..Len(cn.work[TableIndex(cn.work, table_name)].rows))
         IN  [cn |-> d.cn, sql_error |-> d.err # "ok"]

\* _clean_account_table: sqlite3.Error is logged and gives 0
CleanAccountTable(cn, table_name, target_email) ==
    LET info == PragmaTableInfo(cn.work, table_name)
        email_columns == EmailColumns(info.columns)
    IN  IF info.err # "ok"
        THEN [cn |-> cn, sql_error |-> TRUE]
        ELSE IF target_email # <<>> /\ email_columns # <<>>
        THEN DeleteByEmailColumns(cn, table_name, email_columns, 1, target_email)
        ELSE LET n == IF TableExists(cn.work, table_name)
                      THEN Len(cn.work[TableIndex(cn.work, table_name)].rows)
                      ELSE 0
                 d == ExecDelete(cn, table_name, 1..n)
             IN  [cn |-> d.cn, sql_error |-> d.err # "ok"]

\* the account-related tables of _remove_account_data
AccountTables(all_tables) ==
    SelectSeq(all_tables,
              LAMBDA t : ContainsAny(Lower(t),
                  { <<"a", "c", "c", "o", "u", "n", "t">>, <<"u", "s", "e", "r">>, <<"p", "r", "o", "f", "i", "l", "e">>, <<"l", "o", "g", "i", "n">>, <<"a", "u", "t", "h">>,
                    <<"c", "r", "e", "d", "e", "n", "t", "i", "a", "l">>, <<"i", "d", "e", "n", "t", "i", "t", "y">>, <<"m", "e", "m", "b", "e", "r">>, <<"p", "e", "r", "s", "o", "n">>,
                    <<"c", "o", "n", "t", "a", "c", "t">> }))

\* the loop of _remove_account_data over account_tables, from table i on
RECURSIVE CleanAccountTables(_, _, _, _)
CleanAccountTables(c, account_tables, i, target_email) ==
    IF i > Len(account_tables)
    THEN c
    ELSE LET d == CleanAccountTable(c.cn, account_tables[i], target_email) IN
         CleanAccountTables([c EXCEPT !.cn = d.cn,
                                      !.sql_error = @ \/ d.sql_error],
                            account_tables, i + 1, target_email)

\* _remove_email_references for one table: the columns whose first row
\* holds a str are searched with LIKE '%email%'; an sqlite3.Error skips
\* the table
RemoveEmailReferencesFrom(cn, table_name, email) ==
    LET info == PragmaTableInfo(cn.work, table_name) IN
    IF info.err # "ok"
    THEN [cn |-> cn, sql_error |-> TRUE]
    ELSE IF \E c \in 1..Len(info.columns) : ~SqlIdentOk(info.columns[c].name)
    THEN [cn |-> cn, sql_error |-> TRUE]
    ELSE LET rows == cn.work[TableIndex(cn.work, table_name)].rows
             text_columns == { c \in 1..Len(info.columns) :
                                 Len(rows) > 0 /\ rows[1][c].t = "text" }
             doomed == { r \in 1..Len(rows) :
                           \E col \in text_columns : Like(rows[r][col], email) }
         IN  IF text_columns = {}
             THEN [cn |-> cn, sql_error |-> FALSE]
             ELSE LET d == ExecDelete(cn, table_name, doomed) IN
                  [cn |-> d.cn, sql_error |-> d.err # "ok"]

\* _remove_email_references: the loop over all tables, from table i on
RECURSIVE RemoveEmailReferences(_, _, _, _)
RemoveEmailReferences(c, tables, i, email) ==
    IF i > Len(tables)
    THEN c
    ELSE LET d == RemoveEmailReferencesFrom(c.cn, tables[i], email) IN
         RemoveEmailReferences([c EXCEPT !.cn = d.cn,
                                         !.sql_error = @ \/ d.sql_error],
                               tables, i + 1, email)

\* the account-related tables of a database, as a set
AccountTableSet(db) ==
    LET account_tables == AccountTables(TableNames(db)) IN
    { account_tables[i] : i \in 1..Len(account_tables) }

\* _remove_account_data up to the cross-table sweep
RemoveAccountTables(c, options) ==
    CleanAccountTables(c, AccountTables(TableNames(c.cn.work)), 1,
                       options.target_email)

\* the cross-table sweep that ends _remove_account_data
RemoveAccountSweep(c, all_tables, options) ==
    IF options.target_email # <<>>
    THEN RemoveEmailReferences(c, all_tables, 1, options.target_email)
    ELSE c

\* _remove_account_data
RemoveAccountData(c, options) ==
    LET all_tables == TableNames(c.cn.work) IN
    [ c |-> RemoveAccountSweep(RemoveAccountTables(c, options), all_tables, options),
      ret |-> TRUE ]

\* _reset_database_telemetry_ids: a placeholder
ResetDatabaseTelemetryIds(c, options) == [c |-> c, ret |-> TRUE]

\* _clear_session_data, from session table i on: OperationalError (no such
\* table) is skipped, any other error ends the function with False
session_tables == << <<"s", "e", "s", "s", "i", "o", "n", "s">>, <<"s", "e", "s", "s", "i", "o", "n">>, <<"u", "s", "e", "r", "_", "s", "e", "s", "s", "i", "o", "n", "s">>, <<"l", "o", "g", "i", "n", "_", "s", "e", "s", "s", "i", "o", "n", "s">> >>

RECURSIVE ClearSessionTables(_, _)
ClearSessionTables(c, i) ==
    IF i > Len(session_tables)
    THEN [c |-> c, ret |-> TRUE]
    ELSE LET t == session_tables[i]
             n == IF TableExists(c.cn.work, t)
                  THEN Len(c.cn.work[TableIndex(c.cn.work, t)].rows)
                  ELSE 0
             d == ExecDelete(c.cn, t, 1..n)
         IN  IF d.err = "ok" \/ d.err = "OperationalError"
             THEN ClearSessionTables([c EXCEPT !.cn = d.cn], i + 1)
             ELSE [c |-> [c EXCEPT !.cn = d.cn], ret |-> FALSE]

ClearSessionData(c, options) == ClearSessionTables(c, 1)

\* sqlite3.connect(db_path) and the cursor of clean_database; sql_error
\* records that an sqlite3.Error was raised and logged while deleting
CleanOpen(db) == [cn |-> Connect(db), sql_error |-> FALSE]

\* the end of `with sqlite3.connect(db_path) as conn:` in clean_database:
\* VACUUM and commit when every step returned True, VACUUM's sqlite3.Error
\* leaving the block by exception (rollback, False); `return success`
\* with success False leaves the block normally, which commits
CleanFinish(c, success) ==
    IF success
    THEN IF ExecVacuum(c.cn) = "ok"
         THEN [ret |-> TRUE, db |-> Commit(c.cn).file]
         ELSE [ret |-> FALSE, db |-> Rollback(c.cn).file]
    ELSE [ret |-> FALSE, db |-> Commit(c.cn).file]

\* no call of clean_database in progress
DbcIdle == [ pc |-> "idle", options |-> <<>>, c |-> <<>>, success |-> TRUE,
             ret |-> FALSE, before |-> <<>>, account_before |-> <<>>,
             account_errors |-> {} ]

\* FreeAugmentCodeGUI.__init__: no discovery done, no worker thread
GuiInit == [ discovery_complete |-> FALSE, cleanup_thread |-> 0,
             threads |-> <<>>, last |-> "none" ]

\* no run of perform_cleanup in progress
RunIdle ==
    [ pc |-> "idle", options |-> <<>>, found |-> <<>>, backup_dir |-> 0,
      i |-> 1, success |-> TRUE, ret |-> FALSE, total_steps |-> 0,
      completed_steps |-> 0, is_running |-> FALSE, error |-> FALSE,
      attempted |-> <<>>, log |-> <<>>, files0 |-> <<>>, changed |-> {},
      faults |-> 0 ]

\* no account file being cleaned
AcctIdle ==
    [ pc |-> "idle", content |-> <<>>, original |-> <<>>,
      account_data |-> [emails |-> <<>>, usernames |-> <<>>],
      target_email |-> <<>>, remove_all |-> FALSE, passes |-> 0, once |-> <<>> ]

\* DataCleanerStatus.__init__ (progress as <<numerator, denominator>>)
StatusInit ==
    [ progress |-> <<0, 1>>, total_steps |-> 0, completed_steps |-> 0,
      is_running |-> FALSE, success |-> TRUE, error_message |-> FALSE ]

\* FreeAugmentCodeCleaner.__init__: nothing discovered, no call under way
\* (calls: worker thread -> the call of the cleaner it is running)
CleanerInit ==
    [ status |-> StatusInit, database_files |-> <<>>,
      workspace_locations |-> <<>>, calls |-> <<>> ]

\* no termination in progress
TermIdle == [ pc |-> "idle" ]

\* no configuration file being searched
CfgIdle == [ pc |-> "idle" ]

(***************************************************************************)
(* The backup round trip: create a backup directory, back one file up,     *)
(* edit the disk, restore.                                                 *)
(***************************************************************************)
FsInit ==
    /\ clock = 0
    /\ dirs = {}
    /\ manifests = [d \in DirIds |-> NoManifest]
    /\ store = [d \in Dests |-> Absent]

\* the disk before the round trip
RtContents == { ConfigFile("old_a", <<"a", "@", "x", ".", "i", "o">>),
                ConfigFile("old_b", <<"b", "@", "x", ".", "i", "o">>),
                ConfigFile("new", <<"[", "R", "E", "M", "O", "V", "E", "D", "]">>),
                Absent }

RtIdle == [pc |-> "start", dir |-> 0, file |-> None, orig |-> Absent,
           pre |-> Absent, ret |-> FALSE]

RtInit ==
    /\ \E fs \in [Paths -> RtContents] :
         files = [p \in AllPaths |-> IF p \in Paths THEN fs[p] ELSE Absent]
    /\ clock \in DirIds
    /\ dirs = {}
    /\ manifests = [d \in DirIds |-> NoManifest]
    /\ store = [d \in Dests |-> Absent]
    /\ rt = RtIdle
    /\ dbc = DbcIdle
    /\ run = RunIdle
    /\ gui = GuiInit
    /\ acct = AcctIdle
    /\ cleaner = CleanerInit
    /\ term = TermIdle
    /\ cfg = CfgIdle

RtCreateDir ==
    /\ rt.pc = "start"
    /\ LET r == CreateTimestampedBackupDir(dirs, manifests, clock, TRUE) IN
       /\ dirs' = r.dirs
       /\ manifests' = r.manifests
       /\ rt' = [rt EXCEPT !.pc = "dir", !.dir = r.dir]
    /\ UNCHANGED <<files, clock, store, dbc, run, gui, acct, cleaner, term, cfg>>

RtBackup ==
    /\ rt.pc = "dir"
    /\ \E f \in Paths : \E rel \in {None, <<"config_files", name(f)>>} :
         LET r == BackupFile(files, store, manifests, f, rt.dir, rel, "none") IN
         /\ r.ret = "true"
         /\ store' = r.store
         /\ manifests' = r.manifests
         /\ rt' = [rt EXCEPT !.pc = "backed", !.file = f, !.orig = files[f]]
    /\ UNCHANGED <<files, clock, dirs, dbc, run, gui, acct, cleaner, term, cfg>>

\* any change to the backed-up file: new content, or the file deleted
RtEdit ==
    /\ rt.pc = "backed"
    /\ \E c \in Contents \cup {Absent} :
         /\ files[rt.file] # c
         /\ files' = [files EXCEPT ![rt.file] = c]
    /\ UNCHANGED rt
    /\ UNCHANGED <<clock, dirs, manifests, store, dbc, run, gui, acct, cleaner, term, cfg>>

RtRestore ==
    /\ rt.pc = "backed"
    /\ LET r == RestoreFromBackup(files, store, manifests, rt.dir) IN
       /\ files' = r.files
       /\ rt' = [rt EXCEPT !.pc = "restored", !.ret = r.ret, !.pre = files[rt.file]]
    /\ UNCHANGED <<clock, dirs, manifests, store, dbc, run, gui, acct, cleaner, term, cfg>>

RtNext == RtCreateDir \/ RtBackup \/ RtEdit \/ RtRestore

SpecRoundTrip == RtInit /\ [][RtNext]_vars

Col(n, ty) == [name |-> n, type |-> ty]

\* the rows a table may hold are drawn from the first MaxRows of these
NotesRows == << <<IntCell(<<"1">>), TextCell(<<"A", "u", "g", "m", "e", "n", "t">>)>>,
                <<IntCell(<<"2">>), TextCell(<<"p", "l", "a", "i", "n">>)>>,
                <<IntCell(<<"3">>), Null>>,
                <<IntCell(<<"4">>), TextCell(<<"a", "n", " ", "a", "u", "g", "m", "e", "n", "t", ".">>)>> >>
UsersRows == << <<IntCell(<<"1">>), TextCell(<<"a", "@", "x", ".", "i", "o">>), TextCell(<<"z", "@", "x", ".", "i", "o">>)>>,
                <<IntCell(<<"2">>), TextCell(<<"b", "@", "x", ".", "i", "o">>), TextCell(<<"a", "@", "x", ".", "i", "o">>)>>,
                <<IntCell(<<"3">>), TextCell(<<"a", "a", "@", "x", ".", "i", "o">>), Null>>,
                <<IntCell(<<"4">>), TextCell(<<"A", "@", "X", ".", "I", "O">>), TextCell(<<"a", "u", "g", "m", "e", "n", "t">>)>> >>

\* the sub-sequences of the first n of rows
SubSeqsOf(rows, n) ==
    { KeepRows(SubSeq(rows, 1, n), doomed) : doomed \in SUBSET (1..n) }

Table(n, cols, rows, trigger) ==
    [name |-> n, cols |-> cols, rows |-> rows, trigger |-> trigger]

NotesTable(rows, trigger) ==
    Table(<<"n", "o", "t", "e", "s">>, <<Col(<<"i", "d">>, <<"I", "N", "T", "E", "G", "E", "R">>), Col(<<"m", "s", "g">>, <<"T", "E", "X", "T">>)>>, rows, trigger)
UsersTable(rows, trigger) ==
    Table(<<"u", "s", "e", "r", "s">>, <<Col(<<"i", "d">>, <<"I", "N", "T", "E", "G", "E", "R">>), Col(<<"e", "m", "a", "i", "l">>, <<"V", "A", "R", "C", "H", "A", "R", "(", "6", "4", ")">>),
                      Col(<<"b", "a", "c", "k", "u", "p", "_", "m", "a", "i", "l">>, <<"t", "e", "x", "t">>)>>, rows, trigger)
\* account-shaped, with no email-like column
MembersTable ==
    Table(<<"m", "e", "m", "b", "e", "r", "s">>, <<Col(<<"i", "d">>, <<"I", "N", "T", "E", "G", "E", "R">>), Col(<<"n", "i", "c", "k">>, <<"T", "E", "X", "T">>)>>,
          << <<IntCell(<<"1">>), TextCell(<<"b", "o", "b">>)>>, <<IntCell(<<"2">>), TextCell(<<"a", "@", "x", ".", "i", "o">>)>> >>, FALSE)
SessionsTable(trigger) ==
    Table(<<"s", "e", "s", "s", "i", "o", "n", "s">>, <<Col(<<"i", "d">>, <<"I", "N", "T", "E", "G", "E", "R">>)>>, << <<IntCell(<<"7">>)>> >>, trigger)
\* a table whose name needs quoting: every unquoted statement on it fails
LogTable ==
    Table(<<"x", "-", "l", "o", "g">>, <<Col(<<"i", "d">>, <<"I", "N", "T", "E", "G", "E", "R">>), Col(<<"m", "s", "g">>, <<"T", "E", "X", "T">>)>>,
          << <<IntCell(<<"1">>), TextCell(<<"a", "u", "g", "m", "e", "n", "t">>)>> >>, FALSE)

\* databases with the tables notes and users: any rows in them, other
\* tables present or not, at most one table with a trigger
MainDatabases ==
    { <<NotesTable(nr, trig = "notes"), UsersTable(ur, trig = "users")>> \o
      (CASE extra = "none" -> <<>>
         [] extra = "more" -> <<MembersTable, SessionsTable(trig = "sessions")>>
         [] extra = "log" -> <<LogTable>>) :
        nr \in SubSeqsOf(NotesRows, MaxRows),
        ur \in SubSeqsOf(UsersRows, MaxRows),
        trig \in {"none", "notes", "users", "sessions"},
        extra \in {"none", "more", "log"} }

\* databases whose only table with text-like columns has a name that
\* needs quoting
LogDatabases ==
    { <<LogTable>> } \cup { <<SessionsTable(trig), LogTable>> : trig \in BOOLEAN }

\* the databases cleaned
Databases == MainDatabases \cup LogDatabases

\* the cleanup_options clean_database reads
DbOptions ==
    [ remove_augment_records : BOOLEAN,
      remove_account_data : BOOLEAN,
      target_email : {<<>>, <<"a", "@", "x", ".", "i", "o">>},
      reset_telemetry_ids : {FALSE},
      clear_session_data : BOOLEAN,
      tables_to_clean : {<<>>} ]

\* the database file cleaned in this specification
DbcPath == <<"a", "state.db">>

DbcInit ==
    /\ \E db \in Databases :
         files = [p \in AllPaths |-> IF p = DbcPath THEN DbFile(db) ELSE Absent]
    /\ clock = 0
    /\ dirs = {0}
    /\ manifests = [d \in DirIds |-> IF d = 0 THEN [readable |-> TRUE, items |-> <<>>]
                                     ELSE NoManifest]
    /\ store = [d \in Dests |-> Absent]
    /\ \E o \in DbOptions :
         dbc = [ pc |-> "start", options |-> o, c |-> CleanOpen(<<>>),
                 success |-> TRUE, ret |-> FALSE,
                 before |-> files[DbcPath].tables,
                 account_before |-> <<>>, account_errors |-> {} ]
    /\ rt = RtIdle
    /\ run = RunIdle
    /\ gui = GuiInit
    /\ acct = AcctIdle
    /\ cleaner = CleanerInit
    /\ term = TermIdle
    /\ cfg = CfgIdle

\* clean_database up to the backup
DbcBackup ==
    /\ dbc.pc = "start"
    /\ \E fault \in {"none", "copy"} :
         LET b == BackupFile(files, store, manifests, DbcPath, 0,
                             <<"database", name(DbcPath)>>, fault) IN
         /\ store' = b.store
         /\ manifests' = b.manifests
         /\ dbc' = IF b.ret = "true"
                   THEN [dbc EXCEPT !.pc = "augment",
                                    !.c = CleanOpen(files[DbcPath].tables)]
                   ELSE [dbc EXCEPT !.pc = "returned", !.ret = FALSE]
    /\ UNCHANGED <<files, clock, dirs, rt, run, gui, acct, cleaner, term, cfg>>

DbcAugment ==
    /\ dbc.pc = "augment"
    /\ LET r == IF dbc.options.remove_augment_records
                THEN RemoveAugmentRecords(dbc.c, dbc.options)
                ELSE [c |-> dbc.c, ret |-> TRUE] IN
       dbc' = [dbc EXCEPT !.pc = "account", !.c = r.c, !.success = @ /\ r.ret]
    /\ UNCHANGED <<fsVars, rt, run, gui, acct, cleaner, term, cfg>>

\* _remove_account_data: the account-related tables
DbcAccountTables ==
    /\ dbc.pc = "account"
    /\ dbc' = IF dbc.options.remove_account_data
              THEN [dbc EXCEPT
                      !.pc = "sweep",
                      !.c = RemoveAccountTables(dbc.c, dbc.options),
                      !.account_before = dbc.c.cn.work,
                      !.account_errors =
                          { t \in AccountTableSet(dbc.c.cn.work) :
                              CleanAccountTable(dbc.c.cn, t,
                                  dbc.options.target_email).sql_error }]
              ELSE [dbc EXCEPT !.pc = "session"]
    /\ UNCHANGED <<fsVars, rt, run, gui, acct, cleaner, term, cfg>>

\* _remove_account_data: the cross-table sweep, and its return
DbcSweep ==
    /\ dbc.pc = "sweep"
    /\ dbc' = [dbc EXCEPT
                 !.pc = "session",
                 !.c = RemoveAccountSweep(dbc.c, TableNames(dbc.c.cn.work),
                                          dbc.options)]
    /\ UNCHANGED <<fsVars, rt, run, gui, acct, cleaner, term, cfg>>

DbcSession ==
    /\ dbc.pc = "session"
    /\ LET r1 == IF dbc.options.reset_telemetry_ids
                 THEN ResetDatabaseTelemetryIds(dbc.c, dbc.options)
                 ELSE [c |-> dbc.c, ret |-> TRUE]
           r2 == IF dbc.options.clear_session_data
                 THEN ClearSessionData(r1.c, dbc.options)
                 ELSE [c |-> r1.c, ret |-> TRUE] IN
       dbc' = [dbc EXCEPT !.pc = "finish", !.c = r2.c,
                          !.success = @ /\ r1.ret /\ r2.ret]
    /\ UNCHANGED <<fsVars, rt, run, gui, acct, cleaner, term, cfg>>

DbcFinish ==
    /\ dbc.pc = "finish"
    /\ LET f == CleanFinish(dbc.c, dbc.success) IN
       /\ files' = [files EXCEPT ![DbcPath].tables = f.db]
       /\ dbc' = [dbc EXCEPT !.pc = "returned", !.ret = f.ret]
    /\ UNCHANGED <<clock, dirs, manifests, store, rt, run, gui, acct, cleaner, term, cfg>>

DbcNext ==
    \/ DbcBackup \/ DbcAugment \/ DbcAccountTables \/ DbcSweep
    \/ DbcSession \/ DbcFinish

SpecDb == DbcInit /\ [][DbcNext]_vars

(***************************************************************************)
(* telemetry_manager.py, account_cleaner.py and clean_database as one      *)
(* call each. A disk d is [files, store, manifests]; log records every     *)
(* mutation made, with whether the manifest held an entry for the path     *)
(* when the mutation started.                                              *)
(***************************************************************************)
\* the manifest of backup_dir holds an entry whose source is path
HasEntry(mf, backup_dir, path) ==
    \E k \in 1..Len(mf[backup_dir].items) : mf[backup_dir].items[k].source = path

Mutation(d, backup_dir, path) ==
    [path |-> path, recorded |-> HasEntry(d.manifests, backup_dir, path)]

\* the fault of the k-th backup_file call of a sub-operation
FaultAt(fault, k) == IF fault.at = k THEN fault.kind ELSE "none"

\* modify_telemetry_id: the id is replaced by a generated one
ModifyTelemetryId(fs, file_path) ==
    IF fs[file_path] = Absent
    THEN [ret |-> FALSE, files |-> fs]
    ELSE [ret |-> TRUE, files |-> [fs EXCEPT ![file_path].id = "new"]]

\* the loop of _modify_config_file_ids over found_ids, from id_info i on
RECURSIVE ModifyConfigFileIds(_, _, _, _, _, _, _, _)
ModifyConfigFileIds(found_ids, i, backup_dir, d, modified_files, success, log, fault) ==
    IF i > Len(found_ids)
    THEN [result |-> IF success THEN "true" ELSE "false", d |-> d, log |-> log]
    ELSE LET file_path == found_ids[i]
             first == file_path \notin modified_files
             b == BackupFile(d.files, d.store, d.manifests, file_path, backup_dir,
                             <<"config_files", name(file_path)>>, FaultAt(fault, i))
         IN  IF first /\ b.ret = "raise"
             THEN [result |-> "raise", d |-> d, log |-> log]
             ELSE IF first /\ b.ret = "false"
             THEN ModifyConfigFileIds(found_ids, i + 1, backup_dir, d,
                                      modified_files, FALSE, log, fault)
             ELSE LET d1 == IF first
                            THEN [d EXCEPT !.store = b.store,
                                           !.manifests = b.manifests]
                            ELSE d
                      m == ModifyTelemetryId(d1.files, file_path)
                  IN  ModifyConfigFileIds(found_ids, i + 1, backup_dir,
                          [d1 EXCEPT !.files = m.files],
                          modified_files \cup {file_path},
                          success /\ m.ret,
                          Append(log, Mutation(d1, backup_dir, file_path)),
                          fault)

\* modify_telemetry_ids, off Windows (no registry)
ModifyTelemetryIds(found_ids, backup_dir, d, fault) ==
    ModifyConfigFileIds(found_ids, 1, backup_dir, d, {}, TRUE, <<>>, fault)

\* _clean_account_file: the target email is replaced by [REMOVED]
CleanAccountFile(fs, file_path, target_email) ==
    IF fs[file_path] = Absent
    THEN [ret |-> FALSE, files |-> fs]
    ELSE [ ret |-> TRUE,
           files |-> IF target_email # <<>> /\ fs[file_path].email = target_email
                     THEN [fs EXCEPT ![file_path].email = <<"[", "R", "E", "M", "O", "V", "E", "D", "]">>]
                     ELSE fs ]

\* the loop of clean_account_data over account_files, from file_info i on
RECURSIVE CleanAccountFiles(_, _, _, _, _, _, _, _)
CleanAccountFiles(account_files, i, backup_dir, d, target_email, success, log, fault) ==
    IF i > Len(account_files)
    THEN [result |-> IF success THEN "true" ELSE "false", d |-> d, log |-> log]
    ELSE LET file_path == account_files[i]
             b == BackupFile(d.files, d.store, d.manifests, file_path, backup_dir,
                             <<"account_files", name(file_path)>>, FaultAt(fault, i))
         IN  IF b.ret = "raise"
             THEN [result |-> "raise", d |-> d, log |-> log]
             ELSE IF b.ret = "false"
             THEN CleanAccountFiles(account_files, i + 1, backup_dir, d,
                                    target_email, FALSE, log, fault)
             ELSE LET d1 == [d EXCEPT !.store = b.store, !.manifests = b.manifests]
                      m == CleanAccountFile(d1.files, file_path, target_email)
                  IN  CleanAccountFiles(account_files, i + 1, backup_dir,
                          [d1 EXCEPT !.files = m.files], target_email,
                          success /\ m.ret,
                          Append(log, Mutation(d1, backup_dir, file_path)),
                          fault)

\* clean_account_data
CleanAccountData(account_files, backup_dir, d, target_email, fault) ==
    CleanAccountFiles(account_files, 1, backup_dir, d, target_email, TRUE, <<>>, fault)

\* the `with sqlite3.connect(db_path) as conn:` block of clean_database
CleanDatabaseBody(db, cleanup_options) ==
    LET c0 == CleanOpen(db)
        r1 == IF cleanup_options.remove_augment_records
              THEN RemoveAugmentRecords(c0, cleanup_options)
              ELSE [c |-> c0, ret |-> TRUE]
        r2 == IF cleanup_options.remove_account_data
              THEN RemoveAccountData(r1.c, cleanup_options)
              ELSE [c |-> r1.c, ret |-> TRUE]
        r3 == IF cleanup_options.reset_telemetry_ids
              THEN ResetDatabaseTelemetryIds(r2.c, cleanup_options)
              ELSE [c |-> r2.c, ret |-> TRUE]
        r4 == IF cleanup_options.clear_session_data
              THEN ClearSessionData(r3.c, cleanup_options)
              ELSE [c |-> r3.c, ret |-> TRUE]
    IN  CleanFinish(r4.c, r1.ret /\ r2.ret /\ r3.ret /\ r4.ret)

\* clean_database
CleanDatabase(db_path, backup_dir, d, cleanup_options, fault) ==
    IF d.files[db_path] = Absent
    THEN [result |-> "false", d |-> d, log |-> <<>>]
    ELSE LET b == BackupFile(d.files, d.store, d.manifests, db_path, backup_dir,
                             <<"database", name(db_path)>>, FaultAt(fault, 1))
         IN  IF b.ret # "true"
             THEN [result |-> b.ret, d |-> d, log |-> <<>>]
             ELSE LET d1 == [d EXCEPT !.store = b.store, !.manifests = b.manifests]
                      r == CleanDatabaseBody(d.files[db_path].tables, cleanup_options)
                  IN  [ result |-> IF r.ret THEN "true" ELSE "false",
                        d |-> [d1 EXCEPT !.files[db_path].tables = r.db],
                        log |-> <<Mutation(d1, backup_dir, db_path)>> ]

(***************************************************************************)
(* data_cleaner.py: one run of perform_cleanup, then a restore from the    *)
(* run's backup directory.                                                 *)
(***************************************************************************)
\* I/O faults (a failed copy, mkdir or manifest write) one run may meet
MaxFaults == 1

\* the databases discovered
DbLog == <<LogTable>>
DbNotes == <<NotesTable(SubSeq(NotesRows, 1, 2), FALSE)>>
DbSessions == <<NotesTable(SubSeq(NotesRows, 1, 2), FALSE), SessionsTable(TRUE)>>

\* what discovery found
Discovered ==
    [ found_ids : { <<<<"a", "cfg.json">>>>,
                    <<<<"a", "cfg.json">>, <<"b", "cfg.json">>>> },
      account_files : { <<<<"a", "cfg.json">>>>, <<<<"a", "user.json">>>> },
      database_files : { <<<<"a", "state.db">>>>,
                         <<<<"a", "state.db">>, <<"b", "state.db">>>> },
      workspace_locations : { <<"ws">> } ]

\* the cleanup_options perform_cleanup reads
\* (start_cleanup of main.py sets remove_account_data to the value of
\* clean_account_data)
CleanupOptions ==
    { [ modify_telemetry_ids |-> t,
        clean_database |-> d,
        clean_workspace |-> w,
        clean_account_data |-> a,
        remove_account_data |-> a,
        target_email |-> <<"a", "@", "x", ".", "i", "o">> ] :
        t \in BOOLEAN, d \in BOOLEAN, w \in BOOLEAN, a \in BOOLEAN }

\* the options perform_cleanup hands to clean_database
DatabaseOptions(cleanup_options) ==
    [ remove_augment_records |-> TRUE,
      remove_account_data |-> cleanup_options.remove_account_data,
      target_email |-> cleanup_options.target_email,
      reset_telemetry_ids |-> FALSE,
      clear_session_data |-> TRUE,
      tables_to_clean |-> <<>> ]

\* total_steps of perform_cleanup
TotalSteps(cleanup_options, found) ==
    1 + (IF cleanup_options.modify_telemetry_ids THEN 1 ELSE 0)
      + (IF cleanup_options.clean_database THEN Len(found.database_files) ELSE 0)
      + (IF cleanup_options.clean_workspace THEN Len(found.workspace_locations) ELSE 0)
      + (IF cleanup_options.clean_account_data THEN 1 ELSE 0)

\* an aggregate that keeps only the last result
AggregateLast(success, result) == result = "true"

\* success &= <result of a sub-operation>
Aggregate(success, result) == success /\ (result = "true")

\* where perform_cleanup goes on after the given stage
Stages == <<"telemetry", "databases", "workspaces", "account", "finish">>
StageEnabled(stage, r) ==
    CASE stage = "telemetry" -> r.options.modify_telemetry_ids
      [] stage = "databases" -> r.options.clean_database /\ r.found.database_files # <<>>
      [] stage = "workspaces" -> r.options.clean_workspace /\ r.found.workspace_locations # <<>>
      [] stage = "account" -> r.options.clean_account_data
      [] stage = "finish" -> TRUE
StageFrom(k, r) ==
    Stages[CHOOSE j \in k..Len(Stages) :
              /\ StageEnabled(Stages[j], r)
              /\ \A h \in k..(j - 1) : ~StageEnabled(Stages[h], r)]

Disk == [files |-> files, store |-> store, manifests |-> manifests]

RunInit ==
    /\ \E dba \in {DbLog, DbNotes, DbSessions} :
         files = [p \in AllPaths |->
                    CASE p = <<"a", "cfg.json">> -> ConfigFile("old_a", <<"a", "@", "x", ".", "i", "o">>)
                      [] p = <<"b", "cfg.json">> -> ConfigFile("old_b", <<"b", "@", "x", ".", "i", "o">>)
                      [] p = <<"a", "user.json">> -> ConfigFile("old_a", <<"a", "@", "x", ".", "i", "o">>)
                      [] p = <<"a", "state.db">> -> DbFile(dba)
                      [] p = <<"b", "state.db">> -> DbFile(DbSessions)]
    /\ FsInit
    /\ \E o \in CleanupOptions, f \in Discovered :
         run = [RunIdle EXCEPT !.pc = "start", !.options = o, !.found = f,
                               !.files0 = files]
    /\ rt = RtIdle
    /\ dbc = DbcIdle
    /\ gui = GuiInit
    /\ acct = AcctIdle
    /\ cleaner = CleanerInit
    /\ term = TermIdle
    /\ cfg = CfgIdle

\* the faults a sub-operation with n backup_file calls may meet
Faults(n) ==
    {[at |-> 0, kind |-> "none"]} \cup
    (IF run.faults < MaxFaults
     THEN [at : 1..n, kind : {"copy", "mkdir"}]
     ELSE {})

\* an except clause that records no error
ErrorNotRecorded(result) == FALSE

\* the except clause of perform_cleanup calls set_error: status.success is
\* False and error_message is set exactly when the try block raised
ErrorRecorded(result) == result = "raise"

\* what a sub-operation leaves: the disk, the log, the aggregate, and the
\* except clause of perform_cleanup when it raised
AfterSubOperation(op, r, fault, next) ==
    /\ files' = r.d.files
    /\ store' = r.d.store
    /\ manifests' = r.d.manifests
    /\ run' = [run EXCEPT
                 !.attempted = Append(@, [op |-> op, result |-> r.result]),
                 !.log = @ \o r.log,
                 !.changed = @ \cup { p \in AllPaths : r.d.files[p] # run.files0[p] },
                 !.faults = @ + (IF fault.at = 0 THEN 0 ELSE 1),
                 !.success = IF r.result = "raise" THEN @ ELSE Aggregate(@, r.result),
                 !.completed_steps = IF r.result = "raise" THEN @ ELSE @ + 1,
                 !.i = next.i,
                 !.pc = IF r.result = "raise" THEN "done" ELSE next.pc,
                 !.error = ErrorRecorded(r.result),
                 !.is_running = r.result # "raise",
                 !.ret = FALSE]
    /\ UNCHANGED <<clock, dirs, rt, dbc, gui, acct, cleaner, term, cfg>>

\* perform_cleanup up to "Backup directory created"
RunStart ==
    /\ run.pc = "start"
    /\ \E writeOk \in {TRUE} \cup (IF run.faults < MaxFaults THEN {FALSE} ELSE {}) :
         LET r == CreateTimestampedBackupDir(dirs, manifests, clock, writeOk) IN
         /\ dirs' = r.dirs
         /\ manifests' = r.manifests
         /\ run' = [run EXCEPT
                      !.is_running = TRUE,
                      !.total_steps = TotalSteps(run.options, run.found),
                      !.completed_steps = 1,
                      !.backup_dir = r.dir,
                      !.success = TRUE,
                      !.faults = @ + (IF writeOk THEN 0 ELSE 1),
                      !.pc = StageFrom(1, run)]
    /\ UNCHANGED <<files, clock, store, rt, dbc, gui, acct, cleaner, term, cfg>>

RunTelemetry ==
    /\ run.pc = "telemetry"
    /\ \E fault \in Faults(Len(run.found.found_ids)) :
         AfterSubOperation("telemetry",
             ModifyTelemetryIds(run.found.found_ids, run.backup_dir, Disk, fault),
             fault, [pc |-> StageFrom(2, run), i |-> 1])

RunDatabase ==
    /\ run.pc = "databases"
    /\ \E fault \in Faults(1) :
         AfterSubOperation(<<"database", run.found.database_files[run.i]>>,
             CleanDatabase(run.found.database_files[run.i], run.backup_dir, Disk,
                           DatabaseOptions(run.options), fault),
             fault,
             IF run.i < Len(run.found.database_files)
             THEN [pc |-> "databases", i |-> run.i + 1]
             ELSE [pc |-> StageFrom(3, run), i |-> 1])

\* clean_workspace, by its result alone
RunWorkspace ==
    /\ run.pc = "workspaces"
    /\ \E result \in {"true", "false"} :
         AfterSubOperation(<<"workspace", run.found.workspace_locations[run.i]>>,
             [result |-> result, d |-> Disk, log |-> <<>>],
             [at |-> 0, kind |-> "none"],
             IF run.i < Len(run.found.workspace_locations)
             THEN [pc |-> "workspaces", i |-> run.i + 1]
             ELSE [pc |-> StageFrom(4, run), i |-> 1])

RunAccount ==
    /\ run.pc = "account"
    /\ \E fault \in Faults(Len(run.found.account_files)) :
         AfterSubOperation("account",
             CleanAccountData(run.found.account_files, run.backup_dir, Disk,
                              run.options.target_email, fault),
             fault, [pc |-> "finish", i |-> 1])

\* the end of perform_cleanup: the closing status and `return success`
RunFinish ==
    /\ run.pc = "finish"
    /\ run' = [run EXCEPT !.pc = "done", !.is_running = FALSE, !.ret = run.success]
    /\ UNCHANGED <<fsVars, rt, dbc, gui, acct, cleaner, term, cfg>>

\* restore_from_backup on the run's backup directory
RunRestore ==
    /\ run.pc = "done"
    /\ LET r == RestoreFromBackup(files, store, manifests, run.backup_dir) IN
       /\ files' = r.files
       /\ run' = [run EXCEPT !.pc = "restored"]
    /\ UNCHANGED <<clock, dirs, manifests, store, rt, dbc, gui, acct, cleaner, term, cfg>>

Next ==
    \/ RunStart \/ RunTelemetry \/ RunDatabase \/ RunWorkspace
    \/ RunAccount \/ RunFinish \/ RunRestore

Spec == RunInit /\ [][Next]_vars

(***************************************************************************)
(* main.py: the window's handlers run one at a time on the Tk main loop;   *)
(* each worker thread runs one core operation of the cleaner (state        *)
(* "core"), then the rest of its body ("post"), then ends ("dead").        *)
(***************************************************************************)
\* worker threads one session starts
MaxThreads == 3

\* threading.Thread(...).start(): the new thread's number
StartThread(kind) == Append(gui.threads, [kind |-> kind, state |-> "core"])

\* self.cleanup_thread and self.cleanup_thread.is_alive()
CleanupThreadAlive ==
    gui.cleanup_thread # 0 /\ gui.threads[gui.cleanup_thread].state # "dead"

\* auto_detect_path: starts a discovery on a thread it keeps no reference to
AutoDetectPath ==
    /\ Len(gui.threads) < MaxThreads
    /\ gui' = [gui EXCEPT !.threads = StartThread("detect"), !.last = "started"]
    /\ UNCHANGED <<fsVars, rt, dbc, run, acct, cleaner, term, cfg>>

\* start_discovery
StartDiscovery ==
    /\ IF CleanupThreadAlive
       THEN gui' = [gui EXCEPT !.last = "rejected"]
       ELSE /\ Len(gui.threads) < MaxThreads
            /\ gui' = [gui EXCEPT !.threads = StartThread("discovery"),
                                  !.cleanup_thread = Len(gui.threads) + 1,
                                  !.last = "started"]
    /\ UNCHANGED <<fsVars, rt, dbc, run, acct, cleaner, term, cfg>>

\* start_cleanup, the user answering the confirmation dialog
StartCleanup ==
    /\ IF ~gui.discovery_complete \/ CleanupThreadAlive
       THEN gui' = [gui EXCEPT !.last = "rejected"]
       ELSE \E confirmed \in BOOLEAN :
              IF ~confirmed
              THEN gui' = [gui EXCEPT !.last = "declined"]
              ELSE /\ Len(gui.threads) < MaxThreads
                   /\ gui' = [gui EXCEPT !.threads = StartThread("cleanup"),
                                         !.cleanup_thread = Len(gui.threads) + 1,
                                         !.last = "started"]
    /\ UNCHANGED <<fsVars, rt, dbc, run, acct, cleaner, term, cfg>>

\* a worker's core operation returns; discovery_thread then sets
\* discovery_complete
WorkerCoreReturns ==
    /\ \E t \in 1..Len(gui.threads) :
         /\ gui.threads[t].state = "core"
         /\ gui' = [gui EXCEPT
                      !.threads[t].state = "post",
                      !.discovery_complete =
                          @ \/ gui.threads[t].kind = "discovery"]
    /\ UNCHANGED <<fsVars, rt, dbc, run, acct, cleaner, term, cfg>>

\* a worker thread ends
WorkerExit ==
    /\ \E t \in 1..Len(gui.threads) :
         /\ gui.threads[t].state = "post"
         /\ gui' = [gui EXCEPT !.threads[t].state = "dead"]
    /\ UNCHANGED <<fsVars, rt, dbc, run, acct, cleaner, term, cfg>>

GuiNext ==
    \/ AutoDetectPath \/ StartDiscovery \/ StartCleanup
    \/ WorkerCoreReturns \/ WorkerExit

SpecGuiInit ==
    /\ files = [p \in AllPaths |-> Absent]
    /\ FsInit
    /\ rt = RtIdle
    /\ dbc = DbcIdle
    /\ run = RunIdle
    /\ gui = GuiInit
    /\ acct = AcctIdle
    /\ cleaner = CleanerInit
    /\ term = TermIdle
    /\ cfg = CfgIdle

SpecGui == SpecGuiInit /\ [][GuiNext]_vars

\* the worker threads whose core operation is running
CoreOperations == { t \in 1..Len(gui.threads) : gui.threads[t].state = "core" }

\* C6: at no time are two core operations (a discovery or a cleanup)
\* running at once on the cleaner.
C6_OneCoreOperation == Cardinality(CoreOperations) <= 1

(***************************************************************************)
(* Properties of perform_cleanup (Spec)                                    *)
(***************************************************************************)
RunReturned == run.pc \in {"done", "restored"}

\* C1: every mutation a cleanup run makes of a file or database starts
\* with the run's manifest already holding an entry whose source is that
\* artifact's path.
C1_BackupBeforeMutate ==
    \A k \in 1..Len(run.log) : run.log[k].recorded

\* C2: after a cleanup run (here one that met no I/O fault),
\* restore_from_backup on the run's backup directory has returned every
\* file the run changed to the content it had before the run started.
C2_RestoreUndoesRun ==
    (run.pc = "restored" /\ run.faults = 0)
        => \A p \in run.changed : files[p] = run.files0[p]

\* the sub-operations perform_cleanup is to attempt, in order
ExpectedAttempts(r) ==
    (IF r.options.modify_telemetry_ids THEN <<"telemetry">> ELSE <<>>)
    \o (IF r.options.clean_database
        THEN [k \in 1..Len(r.found.database_files) |->
                <<"database", r.found.database_files[k]>>]
        ELSE <<>>)
    \o (IF r.options.clean_workspace
        THEN [k \in 1..Len(r.found.workspace_locations) |->
                <<"workspace", r.found.workspace_locations[k]>>]
        ELSE <<>>)
    \o (IF r.options.clean_account_data THEN <<"account">> ELSE <<>>)

\* C4: when perform_cleanup has returned, every enabled category, every
\* discovered database and every discovered workspace has been attempted,
\* in the order telemetry, databases, workspaces, account data, whatever
\* failed (by a False result or a raised error) on the way.
C4_EveryCategoryAttempted ==
    RunReturned
        => [k \in 1..Len(run.attempted) |-> run.attempted[k].op]
               = ExpectedAttempts(run)

DbcCleaned == dbc.pc = "returned" /\ dbc.c.cn.file # <<>>

\* the rows of a table with no text-like column holding the keyword
WithoutKeyword(table, keyword) ==
    KeepRows(table.rows,
             { r \in 1..Len(table.rows) :
                 \E col \in TextColumns(table.cols) :
                     Like(table.rows[r][col], keyword) })

\* C7: whenever clean_database returns False, the database file holds the
\* same rows as before the call: no deletion made during the call is
\* persisted.
C7_FalsePersistsNothing ==
    (dbc.pc = "returned" /\ dbc.ret = FALSE)
        => files[DbcPath].tables = dbc.before

\* C8: for every table with text-like columns, after clean_database with
\* remove_augment_records (and no other step) has returned, the table in
\* the database file holds exactly the rows without the keyword 'augment',
\* M minus N of them.
C8_KeywordRowsDeleted ==
    (/\ DbcCleaned
     /\ dbc.options.remove_augment_records
     /\ ~dbc.options.remove_account_data
     /\ ~dbc.options.clear_session_data)
        => \A i \in 1..Len(dbc.before) :
             TextColumns(dbc.before[i].cols) # {}
                => files[DbcPath].tables[i].rows =
                       WithoutKeyword(dbc.before[i], <<"a", "u", "g", "m", "e", "n", "t">>)

\* C9: an SQL error raised while deleting from a table (keyword deletion,
\* account-table cleanup or the email sweep) makes clean_database return
\* False.
C9_SqlErrorReturnsFalse ==
    (DbcCleaned /\ dbc.c.sql_error) => dbc.ret = FALSE

\* what the account-table cleanup is to leave of an account-shaped table
AccountRowsKept(table, target_email) ==
    LET email_columns == EmailColumns(table.cols) IN
    IF target_email # <<>> /\ email_columns # <<>>
    THEN KeepRows(table.rows,
                  { r \in 1..Len(table.rows) :
                      \E k \in 1..Len(email_columns) :
                          table.rows[r][email_columns[k]] = TextCell(target_email) })
    ELSE <<>>

MaxPieces == 2

Letters == { LowerCase[i] : i \in 1..26 } \cup { UpperCase[i] : i \in 1..26 }
Digits == {"0", "1", "2", "3", "4", "5", "6", "7", "8", "9"}
\* \w of the re module
WordChars == Letters \cup Digits \cup {"_"}
\* \s of the re module
Whitespace == {" ", "\n", "\t"}

\* the replacement text '[REMOVED]'
Removed == <<"[", "R", "E", "M", "O", "V", "E", "D", "]">>

\* the pattern matches s at index i, literally
MatchAt(s, w, i) ==
    /\ Len(w) > 0
    /\ i + Len(w) - 1 <= Len(s)
    /\ SubSeq(s, i, i + Len(w) - 1) = w

\* \b just before index i of s (i = Len(s) + 1: at the end of s)
IsWordAt(s, i) == i >= 1 /\ i <= Len(s) /\ s[i] \in WordChars
WordBoundary(s, i) == IsWordAt(s, i - 1) # IsWordAt(s, i)

\* the index just after the longest run, from index i on, of characters
\* that satisfy the class (a greedy  [...]* )
RunEnd(s, i, class) ==
    CHOOSE k \in i..(Len(s) + 1) :
        /\ \A m \in i..(k - 1) : s[m] \in class
        /\ (k = Len(s) + 1 \/ s[k] \notin class)

RECURSIVE ReplaceFrom(_, _, _, _)
ReplaceFrom(s, old, new, i) ==
    IF i > Len(s) THEN <<>>
    ELSE IF MatchAt(s, old, i)
         THEN new \o ReplaceFrom(s, old, new, i + Len(old))
         ELSE <<s[i]>> \o ReplaceFrom(s, old, new, i + 1)

\* str.replace with only its first occurrence replaced (str.replace(.., 1))
ReplaceFirst(content, old, new) ==
    IF \E i \in 1..Len(content) : MatchAt(content, old, i)
    THEN LET i == CHOOSE k \in 1..Len(content) :
                     /\ MatchAt(content, old, k)
                     /\ \A m \in 1..(k - 1) : ~MatchAt(content, old, m)
         IN SubSeq(content, 1, i - 1) \o new
                \o SubSeq(content, i + Len(old), Len(content))
    ELSE content

\* content.replace(old, new), old not empty
Replace(content, old, new) == ReplaceFrom(content, old, new, 1)

RECURSIVE SubWordFrom(_, _, _, _)
SubWordFrom(s, word, repl, i) ==
    IF i > Len(s) THEN <<>>
    ELSE IF /\ WordBoundary(s, i)
            /\ MatchAt(s, word, i)
            /\ WordBoundary(s, i + Len(word))
         THEN repl \o SubWordFrom(s, word, repl, i + Len(word))
         ELSE <<s[i]>> \o SubWordFrom(s, word, repl, i + 1)

\* re.sub(rf'\b{re.escape(word)}\b', repl, content)
SubWord(content, word, repl) == SubWordFrom(content, word, repl, 1)

\* the character classes of email_pattern
EmailLocalChars == Letters \cup Digits \cup {".", "_", "%", "+", "-"}
EmailDomainChars == Letters \cup Digits \cup {".", "-"}
EmailTldChars == Letters \cup {"|"}

\* where a match of email_pattern that starts at index i ends, 0 if none:
\* the local part is the run up to '@'; the domain is greedy, then gives
\* back down to the last '.' after which two or more letters end on \b
EmailMatchEnd(s, i) ==
    LET at == RunEnd(s, i, EmailLocalChars)
        r == RunEnd(s, at + 1, EmailDomainChars)
        Ends(j) == { e \in (j + 2)..(RunEnd(s, j + 1, EmailTldChars) - 1) :
                         WordBoundary(s, e + 1) }
        Dots == { j \in (at + 2)..(r - 1) : s[j] = "." /\ Ends(j) # {} }
        j == CHOOSE d \in Dots : \A d2 \in Dots : d2 <= d
    IN IF /\ WordBoundary(s, i)
          /\ at > i
          /\ at <= Len(s)
          /\ s[at] = "@"
          /\ Dots # {}
       THEN CHOOSE e \in Ends(j) : \A e2 \in Ends(j) : e2 <= e
       ELSE 0

RECURSIVE FindallEmailsFrom(_, _)
FindallEmailsFrom(s, i) ==
    IF i > Len(s) THEN <<>>
    ELSE LET e == EmailMatchEnd(s, i) IN
         IF e > 0 THEN <<SubSeq(s, i, e)>> \o FindallEmailsFrom(s, e + 1)
         ELSE FindallEmailsFrom(s, i + 1)

\* re.findall(email_pattern, content)
FindallEmails(content) == FindallEmailsFrom(content, 1)

\* the key of a username pattern at index i, whatever its case
KeyAt(s, key, i) ==
    /\ i + Len(key) - 1 <= Len(s)
    /\ Lower(SubSeq(s, i, i + Len(key) - 1)) = key

\* "key":\s*"([^"]+)" matched at index i: <<first, last>> of the group, or <<>>
QuotedMatch(s, key, i) ==
    LET c == i + Len(key) + 2
        q == RunEnd(s, c + 1, Whitespace)
        e == RunEnd(s, q + 1, {s[m] : m \in 1..Len(s)} \ {"\""})
    IN IF /\ i <= Len(s) /\ s[i] = "\""
          /\ KeyAt(s, key, i + 1)
          /\ c <= Len(s) /\ s[c - 1] = "\"" /\ s[c] = ":"
          /\ q <= Len(s) /\ s[q] = "\""
          /\ e > q + 1
          /\ e <= Len(s)
       THEN <<q + 1, e - 1>>
       ELSE <<>>

\* key\s*[=:]\s*([^\s\n]+) matched at index i: <<first, last>> of the group, or <<>>
PlainMatch(s, key, i) ==
    LET p == RunEnd(s, i + Len(key), Whitespace)
        q == RunEnd(s, p + 1, Whitespace)
        e == RunEnd(s, q, {s[m] : m \in 1..Len(s)} \ Whitespace)
    IN IF /\ KeyAt(s, key, i)
          /\ p <= Len(s) /\ s[p] \in {"=", ":"}
          /\ q <= Len(s)
       THEN <<q, e - 1>>
       ELSE <<>>

\* re.findall(pattern, content, re.IGNORECASE) for one username pattern
RECURSIVE FindallUsernamesFrom(_, _, _, _)
FindallUsernamesFrom(s, key, quoted, i) ==
    IF i > Len(s) THEN <<>>
    ELSE LET g == IF quoted THEN QuotedMatch(s, key, i) ELSE PlainMatch(s, key, i)
             end == IF quoted THEN g[2] + 1 ELSE g[2]
         IN IF g # <<>>
            THEN <<SubSeq(s, g[1], g[2])>> \o FindallUsernamesFrom(s, key, quoted, end + 1)
            ELSE FindallUsernamesFrom(s, key, quoted, i + 1)

\* username_patterns: the key and whether the value is quoted
username_patterns ==
    << [key |-> <<"u", "s", "e", "r", "n", "a", "m", "e">>, quoted |-> TRUE],
       [key |-> <<"u", "s", "e", "r">>, quoted |-> TRUE],
       [key |-> <<"l", "o", "g", "i", "n">>, quoted |-> TRUE],
       [key |-> <<"a", "c", "c", "o", "u", "n", "t">>, quoted |-> TRUE],
       [key |-> <<"u", "s", "e", "r", "n", "a", "m", "e">>, quoted |-> FALSE],
       [key |-> <<"u", "s", "e", "r">>, quoted |-> FALSE],
       [key |-> <<"l", "o", "g", "i", "n">>, quoted |-> FALSE] >>

\* str.isdigit()
IsDigit(s) == Len(s) > 0 /\ \A i \in 1..Len(s) : s[i] \in Digits

\* the elements of a sequence
Range(seq) == { seq[i] : i \in 1..Len(seq) }

\* list(set(...)): the elements in an order the hash seed decides
ListsOf(set) ==
    IF set = {} THEN { <<>> }
    ELSE { l \in [1..Cardinality(set) -> set] : Range(l) = set }

\* _extract_account_data_from_file: every value account_data can take
ExtractAccountDataFromFile(content) ==
    LET emails == Range(FindallEmails(content))
        found == UNION { Range(FindallUsernamesFrom(content, username_patterns[k].key,
                                                    username_patterns[k].quoted, 1)) :
                         k \in 1..Len(username_patterns) }
        usernames == { u \in found : Len(u) > 2 /\ ~IsDigit(u) }
    IN { [emails |-> e, usernames |-> u] : e \in ListsOf(emails), u \in ListsOf(usernames) }

RECURSIVE ReplaceEmails(_, _, _)
ReplaceEmails(content, emails, k) ==
    IF k > Len(emails) THEN content
    ELSE ReplaceEmails(Replace(content, emails[k], Removed), emails, k + 1)

RECURSIVE SubUsernames(_, _, _)
SubUsernames(content, usernames, k) ==
    IF k > Len(usernames) THEN content
    ELSE SubUsernames(IF Len(usernames[k]) > 4
                      THEN SubWord(content, usernames[k], Removed)
                      ELSE content,
                      usernames, k + 1)

\* target_email.split('@')[0]
EmailPrefix(target_email) ==
    SubSeq(target_email, 1, RunEnd(target_email, 1, Range(target_email) \ {"@"}) - 1)

\* _clean_account_file taking the exhaustive branch whatever remove_all is
CleanAccountFileContentAll(content, account_data, target_email, remove_all) ==
    SubUsernames(ReplaceEmails(content, account_data.emails, 1),
                 account_data.usernames, 1)

\* _clean_account_file: the content the file holds afterwards
CleanAccountFileContent(content, account_data, target_email, remove_all) ==
    IF remove_all
    THEN SubUsernames(ReplaceEmails(content, account_data.emails, 1),
                      account_data.usernames, 1)
    ELSE IF target_email # <<>>
    THEN LET replaced == Replace(content, target_email, Removed)
             email_prefix == EmailPrefix(target_email)
         IN IF Len(email_prefix) > 3
            THEN SubWord(replaced, email_prefix, Removed)
            ELSE replaced
    ELSE content

\* the words account files are made of
AcctPieces ==
    { <<"j", "o", "h", "n", "@", "x", ".", "i", "o">>, <<"R", "E", "M", "O", "V", "E", "D", "@", "x", ".", "i", "o">>, <<"j", "o", "h", "n", "@", "y", ".", "c", "o">>, <<"a", "m", "y", "@", "x", ".", "i", "o">>, <<"x", "j", "o", "h", "n", "@", "x", ".", "i", "o">>,
      <<"j", "o", "h", "n">>, <<"e", "v", "e">>, <<"s", "t", "e", "v", "e", "n">>, <<"a", "l", "i", "c", "e">>, <<"m", "a", "l", "i", "c", "e">>,
      <<"u", "s", "e", "r", "=", "e", "v", "e">>, <<"u", "s", "e", "r", "=", "a", "l", "i", "c", "e">>, <<"\"", "u", "s", "e", "r", "\"", ":", "\"", "a", "l", "i", "c", "e", "\"">> }

RECURSIVE Join(_, _)
Join(pieces, k) ==
    IF k > Len(pieces) THEN <<>>
    ELSE IF k = 1 THEN pieces[1] \o Join(pieces, 2)
    ELSE <<" ">> \o pieces[k] \o Join(pieces, k + 1)

AcctContents ==
    { Join(ps, 1) : ps \in UNION { [1..n -> AcctPieces] : n \in 1..MaxPieces } }

\* the e-mail addresses the user may type as target ('' for none)
TargetEmails == { <<"j", "o", "h", "n", "@", "x", ".", "i", "o">>, <<"R", "E", "M", "O", "V", "E", "D", "@", "x", ".", "i", "o">>, <<"e", "v", "e", "@", "x", ".", "i", "o">>, <<>> }

AcctInit ==
    /\ files = [p \in AllPaths |-> Absent]
    /\ FsInit
    /\ rt = RtIdle
    /\ dbc = DbcIdle
    /\ run = RunIdle
    /\ gui = GuiInit
    /\ \E c \in AcctContents, t \in TargetEmails, all \in BOOLEAN :
         acct = [AcctIdle EXCEPT !.pc = "file", !.content = c, !.original = c,
                                 !.target_email = t, !.remove_all = all]
    /\ cleaner = CleanerInit
    /\ term = TermIdle
    /\ cfg = CfgIdle

\* discover_account_data reads the file (account_cleaner.py:41-46)
AcctDiscover ==
    /\ acct.pc = "file"
    /\ \E d \in ExtractAccountDataFromFile(acct.content) :
         acct' = [acct EXCEPT !.pc = "discovered", !.account_data = d]
    /\ UNCHANGED <<fsVars, rt, dbc, run, gui, cleaner, term, cfg>>

\* one call of _clean_account_file on the file, with the data discovered
AcctClean ==
    /\ acct.pc \in {"discovered", "cleaned"}
    /\ acct.passes < 2
    /\ LET c == CleanAccountFileContent(acct.content, acct.account_data,
                                        acct.target_email, acct.remove_all)
       IN acct' = [acct EXCEPT !.pc = "cleaned", !.content = c,
                               !.passes = acct.passes + 1,
                               !.once = IF acct.passes = 0 THEN c ELSE acct.once]
    /\ UNCHANGED <<fsVars, rt, dbc, run, gui, cleaner, term, cfg>>

AcctNext == AcctDiscover \/ AcctClean

SpecAccount == AcctInit /\ [][AcctNext]_vars

(***************************************************************************)
(* Properties of account-file cleaning (SpecAccount).                      *)
(***************************************************************************)
\* one targeted pass has run on the file
TargetedOnce ==
    acct.passes = 1 /\ ~acct.remove_all /\ acct.target_email # <<>>

\* how often e is among the elements of seq
Count(seq, e) == Cardinality({ i \in 1..Len(seq) : seq[i] = e })

\* occurrences of u in s that are not whole words
EmbeddedCount(s, u) ==
    Cardinality({ i \in 1..Len(s) :
                    /\ MatchAt(s, u, i)
                    /\ ~(WordBoundary(s, i) /\ WordBoundary(s, i + Len(u))) })

\* C11: a second targeted pass (remove_all false, target_email set) over a
\* file leaves the content the first pass left.
C11_TargetedIdempotent ==
    (acct.passes = 2 /\ ~acct.remove_all /\ acct.target_email # <<>>)
        => acct.content = acct.once

\* an address the targeted pass has no reason to touch: it does not contain
\* the target, nor the target's local part (if longer than 3) as a whole word
Untargeted(e, target_email) ==
    /\ e # target_email
    /\ ~Contains(e, target_email)
    /\ (Len(EmailPrefix(target_email)) > 3
            => SubWord(e, EmailPrefix(target_email), Removed) = e)

\* C12 (amended): after a targeted pass no occurrence of the target e-mail
\* is left, the token stands where it was, and every other address that
\* contains neither the target nor the target's local part as a whole word
\* occurs as often as before.
C12_TargetedRedaction ==
    TargetedOnce =>
        /\ ~Contains(acct.content, acct.target_email)
        /\ (Contains(acct.original, acct.target_email)
                => Contains(acct.content, Removed))
        /\ \A e \in Range(FindallEmails(acct.original)) :
               Untargeted(e, acct.target_email)
                   => Count(FindallEmails(acct.content), e)
                          = Count(FindallEmails(acct.original), e)

\* C12: a file that held the target and an untouched other address
C12_Witness ==
    /\ TargetedOnce
    /\ Contains(acct.original, acct.target_email)
    /\ Len(EmailPrefix(acct.target_email)) > 3
    /\ acct.content # acct.original
    /\ \E e \in Range(FindallEmails(acct.original)) :
           /\ Untargeted(e, acct.target_email)
           /\ Count(FindallEmails(acct.content), e) = 1

\* C12 as stated: after a targeted pass no occurrence of the target e-mail
\* is left and every other address of the file occurs as often as before.
C12_AsStated ==
    TargetedOnce =>
        /\ ~Contains(acct.content, acct.target_email)
        /\ \A e \in Range(FindallEmails(acct.original)) \ {acct.target_email} :
               Count(FindallEmails(acct.content), e)
                   = Count(FindallEmails(acct.original), e)

\* C13: after an exhaustive pass (remove_all true) no discovered username is
\* left standing as a whole word, and (in a file without e-mail addresses)
\* every occurrence embedded in a longer word is still there.
C13_WholeWordUsernames ==
    (acct.passes = 1 /\ acct.remove_all) =>
        \A u \in Range(acct.account_data.usernames) :
            /\ SubWord(acct.content, u, Removed) = acct.content
            /\ (acct.account_data.emails = <<>>
                    => EmbeddedCount(acct.content, u) = EmbeddedCount(acct.original, u))

(***************************************************************************)
(* data_cleaner.py under the threads of main.py: every worker thread calls *)
(* discover_augmentcode_data or perform_cleanup on the one cleaner, whose  *)
(* status object and discovery results all calls share.  A call advances   *)
(* one status update at a time; sub-operations are taken by their result.  *)
(***************************************************************************)
\* DataCleanerStatus.update
Update(status, step_completed) ==
    IF step_completed
    THEN [status EXCEPT
            !.completed_steps = @ + 1,
            !.progress = IF status.total_steps > 0
                         THEN <<status.completed_steps + 1, status.total_steps>>
                         ELSE @]
    ELSE status

\* DataCleanerStatus.set_error
SetError(status) == [status EXCEPT !.success = FALSE, !.error_message = TRUE]

\* worker threads alive at once
MaxLive == 2

\* what a discovery finds on the disk of this session
DatabaseFilesFound == << <<"a", "state.db">>, <<"b", "state.db">> >>
WorkspacesFound == <<"ws">>

\* the user clicks while fewer than MaxLive worker threads are alive
LiveThreads == { t \in 1..Len(gui.threads) : gui.threads[t].state # "dead" }
ClickAutoDetect == Cardinality(LiveThreads) < MaxLive /\ AutoDetectPath
ClickStartDiscovery == Cardinality(LiveThreads) < MaxLive /\ StartDiscovery
ClickStartCleanup == Cardinality(LiveThreads) < MaxLive /\ StartCleanup

\* the threads that run a call of the cleaner and have not started it
NotCalled(kinds) ==
    { t \in 1..Len(gui.threads) :
        /\ gui.threads[t].kind \in kinds
        /\ gui.threads[t].state = "core"
        /\ t \notin DOMAIN cleaner.calls }

\* the calls at one of the given positions
CallsAt(pcs) == { t \in DOMAIN cleaner.calls : cleaner.calls[t].pc \in pcs }

CallInit(op) ==
    [ op |-> op, pc |-> "begin", stage |-> 0, options |-> <<>>, total_steps |-> 0,
      database_files |-> <<>>, workspace_locations |-> <<>>, i |-> 1,
      success |-> TRUE, raised |-> FALSE, ret |-> FALSE ]

\* discover_augmentcode_data up to the try block
DiscoverBegin ==
    /\ \E t \in NotCalled({"detect", "discovery"}) :
         cleaner' = [cleaner EXCEPT
             !.status = [Update(@, FALSE) EXCEPT !.total_steps = 7,
                                                 !.completed_steps = 0],
             !.calls = (t :> [CallInit("discover") EXCEPT !.pc = "stage", !.stage = 1]) @@ @]
    /\ UNCHANGED <<fsVars, rt, dbc, run, gui, acct, term, cfg>>

\* one stage of discover_augmentcode_data, with its closing
\* update(step_completed=True); or the stage raises and the except clause
\* records the error
DiscoverStage ==
    /\ \E t \in CallsAt({"stage"}) :
         LET call == cleaner.calls[t]
             k == call.stage
         IN \E raised \in BOOLEAN :
              IF raised
              THEN cleaner' = [cleaner EXCEPT
                       !.status = SetError(@),
                       !.calls[t].pc = "returned",
                       !.calls[t].raised = TRUE]
              ELSE cleaner' = [cleaner EXCEPT
                       !.database_files = IF k = 3 THEN DatabaseFilesFound ELSE @,
                       !.workspace_locations = IF k = 4 THEN WorkspacesFound ELSE @,
                       !.status = Update(@, TRUE),
                       !.calls[t].pc = IF k = 7 THEN "returned" ELSE "stage",
                       !.calls[t].stage = IF k = 7 THEN 7 ELSE k + 1]
    /\ UNCHANGED <<fsVars, rt, dbc, run, gui, acct, term, cfg>>

\* where perform_cleanup goes on after the stage at position k of CleanupStages
CleanupStages == <<"backup", "telemetry", "databases", "workspaces", "account", "finish">>
CleanupStageEnabled(stage, options, c) ==
    CASE stage = "telemetry" -> options.modify_telemetry_ids
      [] stage = "databases" -> options.clean_database /\ c.database_files # <<>>
      [] stage = "workspaces" -> options.clean_workspace /\ c.workspace_locations # <<>>
      [] stage = "account" -> options.clean_account_data
      [] stage = "finish" -> TRUE
CleanupStageFrom(k, options, c) ==
    CleanupStages[CHOOSE j \in k..Len(CleanupStages) :
                     /\ CleanupStageEnabled(CleanupStages[j], options, c)
                     /\ \A h \in k..(j - 1) :
                            ~CleanupStageEnabled(CleanupStages[h], options, c)]
CleanupStageIndex(stage) == CHOOSE j \in 1..Len(CleanupStages) : CleanupStages[j] = stage

\* perform_cleanup up to the try block
CleanupBegin ==
    /\ \E t \in NotCalled({"cleanup"}) : \E o \in CleanupOptions :
         LET total_steps == TotalSteps(o, cleaner) IN
         cleaner' = [cleaner EXCEPT
             !.status = [Update(@, FALSE) EXCEPT !.is_running = TRUE,
                                                 !.total_steps = total_steps,
                                                 !.completed_steps = 0],
             !.calls = (t :> [CallInit("cleanup") EXCEPT
                                 !.pc = "backup", !.options = o,
                                 !.total_steps = total_steps]) @@ @]
    /\ UNCHANGED <<fsVars, rt, dbc, run, gui, acct, term, cfg>>

\* an except clause that leaves is_running as it is
ExceptClauseStillRunning(c, t) ==
    [c EXCEPT !.status = SetError(@),
              !.calls[t].pc = "returned",
              !.calls[t].raised = TRUE,
              !.calls[t].ret = FALSE]

\* the except clause of perform_cleanup
ExceptClause(c, t) ==
    [c EXCEPT !.status = [SetError(@) EXCEPT !.is_running = FALSE],
              !.calls[t].pc = "returned",
              !.calls[t].raised = TRUE,
              !.calls[t].ret = FALSE]

\* one counted step of perform_cleanup: the backup directory, or one
\* sub-operation with its closing update(step_completed=True); a for loop
\* takes the list the cleaner holds when the loop is reached
CleanupStep ==
    /\ \E t \in CallsAt({"backup", "telemetry", "databases", "workspaces", "account"}) :
         LET call == cleaner.calls[t]
             list == CASE call.pc = "databases" -> call.database_files
                       [] call.pc = "workspaces" -> call.workspace_locations
                       [] OTHER -> <<"once">>
             next == IF call.i < Len(list) THEN call.pc
                     ELSE CleanupStageFrom(CleanupStageIndex(call.pc) + 1,
                                           call.options, cleaner)
         IN \E result \in {"true", "raise"} \cup
                          (IF call.pc = "backup" THEN {} ELSE {"false"}) :
              IF result = "raise"
              THEN cleaner' = ExceptClause(cleaner, t)
              ELSE cleaner' = [cleaner EXCEPT
                       !.status = Update(@, TRUE),
                       !.calls[t].success = Aggregate(@, result),
                       !.calls[t].i = IF next = call.pc THEN @ + 1 ELSE 1,
                       !.calls[t].database_files =
                           IF next = "databases" /\ call.pc # "databases"
                           THEN cleaner.database_files ELSE @,
                       !.calls[t].workspace_locations =
                           IF next = "workspaces" /\ call.pc # "workspaces"
                           THEN cleaner.workspace_locations ELSE @,
                       !.calls[t].pc = next]
    /\ UNCHANGED <<fsVars, rt, dbc, run, gui, acct, term, cfg>>

\* the end of perform_cleanup: the closing status and `return success`
CleanupFinish ==
    /\ \E t \in CallsAt({"finish"}) :
         cleaner' = [cleaner EXCEPT
             !.status = [Update(@, FALSE) EXCEPT !.is_running = FALSE],
             !.calls[t].pc = "returned",
             !.calls[t].ret = cleaner.calls[t].success]
    /\ UNCHANGED <<fsVars, rt, dbc, run, gui, acct, term, cfg>>

\* the call has returned to the worker thread and its locals are gone;
\* discovery_thread then sets discovery_complete
CallReturns ==
    /\ \E t \in CallsAt({"returned"}) :
         /\ gui.threads[t].state = "core"
         /\ gui' = [gui EXCEPT
                      !.threads[t].state = "post",
                      !.discovery_complete =
                          @ \/ gui.threads[t].kind = "discovery"]
         /\ cleaner' = [cleaner EXCEPT
                          !.calls[t] = [CallInit(cleaner.calls[t].op) EXCEPT !.pc = "over"]]
    /\ UNCHANGED <<fsVars, rt, dbc, run, acct, term, cfg>>

CleanerNext ==
    \/ ClickAutoDetect \/ ClickStartDiscovery \/ ClickStartCleanup
    \/ DiscoverBegin \/ DiscoverStage
    \/ CleanupBegin \/ CleanupStep \/ CleanupFinish
    \/ CallReturns \/ WorkerExit

SpecCleaner == SpecGuiInit /\ [][CleanerNext]_vars

(***************************************************************************)
(* Properties of the cleaner's status under the threads of main.py         *)
(* (SpecCleaner) and of one run of perform_cleanup (Spec).                 *)
(***************************************************************************)
\* the calls of the given operation that are under way
CallsUnderWay(op) ==
    { t \in DOMAIN cleaner.calls :
        cleaner.calls[t].op = op /\ cleaner.calls[t].pc \notin {"returned", "over"} }

\* C14: while perform_cleanup runs, status.total_steps keeps the value the
\* call fixed before its first sub-operation (1 + one per enabled single-step
\* category + one per database file and workspace), and a call that returns
\* without an internal exception leaves completed_steps = total_steps.
C14_TotalStepsFixed ==
    [][ \A t \in CallsUnderWay("cleanup") :
          /\ cleaner'.status.total_steps = cleaner.calls[t].total_steps
          /\ (cleaner'.calls[t].pc = "returned" /\ ~cleaner'.calls[t].raised)
                 => cleaner'.status.completed_steps = cleaner'.status.total_steps ]_vars

\* C15: each stage a discovery finishes raises completed_steps by one, the
\* stages follow each other in order, and the stage that ends a discovery
\* without an error leaves completed_steps = 7 and progress = 1.
C15_DiscoveryStages ==
    [][ \A t \in CallsUnderWay("discover") :
          (cleaner'.calls[t] # cleaner.calls[t] /\ ~cleaner'.calls[t].raised) =>
              /\ cleaner'.status.completed_steps = cleaner.status.completed_steps + 1
              /\ cleaner'.calls[t].stage =
                     IF cleaner.calls[t].stage = 7 THEN 7 ELSE cleaner.calls[t].stage + 1
              /\ cleaner'.status.completed_steps = cleaner.calls[t].stage
              /\ (cleaner'.calls[t].pc = "returned"
                      => /\ cleaner'.status.completed_steps = 7
                         /\ cleaner'.status.progress = <<7, 7>>) ]_vars

\* C16: perform_cleanup always comes back with a boolean; when a
\* sub-operation raised, the value is False, the error is recorded in the
\* status and is_running is False again.
C16_NeverPropagates ==
    RunReturned =>
        /\ run.ret \in BOOLEAN
        /\ ~run.is_running
        /\ (\E k \in 1..Len(run.attempted) : run.attempted[k].result = "raise")
               => (run.ret = FALSE /\ run.error = TRUE)

\* C16: a run in which the second sub-operation raised has returned False
C16_Witness ==
    /\ run.pc = "done"
    /\ Len(run.attempted) >= 2
    /\ run.attempted[Len(run.attempted)].result = "raise"
    /\ run.ret = FALSE
    /\ run.error = TRUE

(***************************************************************************)
(* utils.py: IDEDetector.terminate_augmentcode_processes.  The processes   *)
(* are the operating system's: one that is running may exit at any moment, *)
(* by itself or because it was asked to, so the call advances one psutil   *)
(* call at a time.                                                         *)
(***************************************************************************)
\* processes in process_list
MaxProcs == 2
\* process.wait(timeout=10)
WaitTimeout == 10

\* a wait that gives up at once
WaitExpiredAtOnce(elapsed) == TRUE

\* psutil.TimeoutExpired: the timeout of process.wait has passed
WaitExpired(elapsed) == elapsed >= WaitTimeout

AccessDeniedText == "Access denied - try running as administrator"

\* the process the loop is at
Pid == term.process_list[term.k]

\* the loop goes on to the next proc_info, or the function returns
NextProcess(t) ==
    [t EXCEPT !.k = @ + 1, !.elapsed = 0,
              !.pc = IF t.k < Len(t.process_list) THEN "construct" ELSE "returned"]

\* results['terminated'].append(...)
Terminated(t, pid, method) ==
    [t EXCEPT !.results.terminated = Append(@, [pid |-> pid, method |-> method])]

\* except psutil.NoSuchProcess
NoSuchProcess(t, pid, step) ==
    NextProcess(Terminated([t EXCEPT !.gone_at[pid] = step], pid, "already_terminated"))

\* except psutil.AccessDenied
AccessDenied(t, pid) ==
    NextProcess([t EXCEPT !.results.failed =
                     Append(@, [pid |-> pid, error |-> AccessDeniedText])])

\* os.kill(pid, sig) as psutil sends it
SendSignal(t, pid, sig) ==
    [t EXCEPT !.procs[pid].signals = Append(@, sig),
              !.procs[pid].alive = IF sig = "kill" THEN FALSE ELSE @]

TermInit ==
    /\ files = [p \in AllPaths |-> Absent]
    /\ FsInit
    /\ rt = RtIdle
    /\ dbc = DbcIdle
    /\ run = RunIdle
    /\ gui = GuiInit
    /\ acct = AcctIdle
    /\ cleaner = CleanerInit
    /\ \E n \in 1..MaxProcs, force \in BOOLEAN :
         \E alive \in [1..n -> BOOLEAN], denied \in [1..n -> BOOLEAN] :
           term = [ pc |-> "construct", force |-> force,
                    process_list |-> [i \in 1..n |-> i], k |-> 1, elapsed |-> 0,
                    results |-> [terminated |-> <<>>, failed |-> <<>>, warnings |-> <<>>],
                    procs |-> [p \in 1..n |->
                                 [alive |-> alive[p], denied |-> denied[p], signals |-> <<>>]],
                    gone_at |-> [p \in 1..n |-> "none"],
                    timed_out |-> {},
                    waited |-> [p \in 1..n |-> 0] ]
    /\ cfg = CfgIdle

\* a running process exits, at any moment
ProcessExits ==
    /\ term.pc # "returned"
    /\ \E p \in DOMAIN term.procs :
         /\ term.procs[p].alive
         /\ term' = [term EXCEPT !.procs[p].alive = FALSE]
    /\ UNCHANGED <<fsVars, rt, dbc, run, gui, acct, cleaner, cfg>>

\* process = psutil.Process(pid)
TermConstruct ==
    /\ term.pc = "construct"
    /\ term' = IF term.procs[Pid].alive
               THEN [term EXCEPT !.pc = "is_running"]
               ELSE NoSuchProcess(term, Pid, "construct")
    /\ UNCHANGED <<fsVars, rt, dbc, run, gui, acct, cleaner, cfg>>

\* if process.is_running(): False for a process that has gone, and then
\* the body is skipped
TermIsRunning ==
    /\ term.pc = "is_running"
    /\ term' = IF term.procs[Pid].alive
               THEN [term EXCEPT !.pc = "signal"]
               ELSE NextProcess([term EXCEPT !.gone_at[Pid] = "is_running"])
    /\ UNCHANGED <<fsVars, rt, dbc, run, gui, acct, cleaner, cfg>>

\* process.kill() with force, process.terminate() without
TermSignal ==
    /\ term.pc = "signal"
    /\ term' =
         IF ~term.procs[Pid].alive THEN NoSuchProcess(term, Pid, "signal")
         ELSE IF term.procs[Pid].denied THEN AccessDenied(term, Pid)
         ELSE IF term.force
         THEN NextProcess(Terminated(SendSignal(term, Pid, "kill"), Pid, "force_kill"))
         ELSE [SendSignal(term, Pid, "terminate") EXCEPT !.pc = "wait", !.elapsed = 0]
    /\ UNCHANGED <<fsVars, rt, dbc, run, gui, acct, cleaner, cfg>>

\* process.wait(timeout=10): a second passes, the process is seen gone, or
\* the timeout expires
TermWait ==
    /\ term.pc = "wait"
    /\ term' =
         IF ~term.procs[Pid].alive
         THEN NextProcess(Terminated(term, Pid, "graceful"))
         ELSE IF ~WaitExpired(term.elapsed)
         THEN [term EXCEPT !.elapsed = @ + 1]
         ELSE [term EXCEPT !.pc = "kill", !.timed_out = @ \cup {Pid},
                           !.waited[Pid] = term.elapsed]
    /\ UNCHANGED <<fsVars, rt, dbc, run, gui, acct, cleaner, cfg>>

\* except psutil.TimeoutExpired: process.kill(), the record and the warning
TermKill ==
    /\ term.pc = "kill"
    /\ term' =
         IF ~term.procs[Pid].alive THEN NoSuchProcess(term, Pid, "kill")
         ELSE LET killed == Terminated(SendSignal(term, Pid, "kill"), Pid,
                                       "force_kill_after_timeout")
              IN NextProcess([killed EXCEPT !.results.warnings = Append(@, Pid)])
    /\ UNCHANGED <<fsVars, rt, dbc, run, gui, acct, cleaner, cfg>>

TermNext ==
    \/ ProcessExits \/ TermConstruct \/ TermIsRunning
    \/ TermSignal \/ TermWait \/ TermKill

SpecTerminate == TermInit /\ [][TermNext]_vars

(***************************************************************************)
(* Properties of terminate_augmentcode_processes (SpecTerminate).          *)
(***************************************************************************)
\* the processes the loop has dealt with
Processed ==
    { term.process_list[i] : i \in 1..(IF term.pc = "returned"
                                       THEN Len(term.process_list) ELSE term.k - 1) }

\* the entries of a result list for one process
EntriesOf(list, pid) == { i \in 1..Len(list) : list[i].pid = pid }
WarningsOf(pid) == { i \in 1..Len(term.results.warnings) : term.results.warnings[i] = pid }
MethodOf(pid) == term.results.terminated[CHOOSE i \in EntriesOf(term.results.terminated, pid) : TRUE].method

\* C17 (amended): without force, kill is sent only to a process that was
\* sent terminate and whose wait of 10 timed out; a process so killed is
\* recorded with method force_kill_after_timeout and has one warning, and
\* no other process has a warning.  With force, kill is the only signal and
\* there is no wait and no warning.
C17_GracefulThenForced ==
    \A p \in DOMAIN term.procs :
        /\ ~term.force =>
             /\ term.procs[p].signals \in {<<>>, <<"terminate">>, <<"terminate", "kill">>}
             /\ term.procs[p].signals = <<"terminate", "kill">>
                    => (p \in term.timed_out /\ term.waited[p] = WaitTimeout)
             /\ (p \in Processed /\ term.procs[p].signals = <<"terminate", "kill">>)
                    => /\ Cardinality(EntriesOf(term.results.terminated, p)) = 1
                       /\ MethodOf(p) = "force_kill_after_timeout"
                       /\ Cardinality(WarningsOf(p)) = 1
             /\ (p \in Processed /\ term.procs[p].signals # <<"terminate", "kill">>)
                    => WarningsOf(p) = {}
        /\ term.force =>
             /\ term.procs[p].signals \in {<<>>, <<"kill">>}
             /\ term.elapsed = 0
             /\ term.timed_out = {}
             /\ term.results.warnings = <<>>
             /\ (p \in Processed /\ term.procs[p].signals = <<"kill">>)
                    => MethodOf(p) = "force_kill"

\* C17: a call without force has killed a process after its wait timed out
C17_Witness ==
    /\ term.pc = "returned"
    /\ ~term.force
    /\ \E p \in term.timed_out :
         /\ term.waited[p] = WaitTimeout
         /\ term.procs[p].signals = <<"terminate", "kill">>
         /\ MethodOf(p) = "force_kill_after_timeout"
         /\ WarningsOf(p) # {}

\* C17 as stated: without force, every process whose wait of 10 timed out
\* is recorded in terminated with method force_kill_after_timeout and has
\* one warning.
C17_AsStated ==
    \A p \in Processed :
        (~term.force /\ p \in term.timed_out) =>
            /\ EntriesOf(term.results.terminated, p) # {}
            /\ MethodOf(p) = "force_kill_after_timeout"
            /\ Cardinality(WarningsOf(p)) = 1

\* C18: a process found to have exited before any signal was sent to it is
\* in terminated with the outcome already_terminated and not in failed; a
\* process for which access was denied is in failed with the error text.
C18_GoneAndDenied ==
    \A p \in Processed :
        /\ term.gone_at[p] \in {"construct", "is_running", "signal"} =>
             /\ EntriesOf(term.results.terminated, p) # {}
             /\ MethodOf(p) = "already_terminated"
             /\ EntriesOf(term.results.failed, p) = {}
        /\ (term.gone_at[p] = "none" /\ term.procs[p].denied /\ term.procs[p].signals = <<>>) =>
             /\ \E i \in EntriesOf(term.results.failed, p) :
                    term.results.failed[i].error = AccessDeniedText
             /\ EntriesOf(term.results.terminated, p) = {}

(***************************************************************************)
(* backup_manager.py: the manifest of one backup directory under the       *)
(* backup calls of a run (backup_file for configuration, account and       *)
(* database files, backup_directory for workspaces).                       *)
(***************************************************************************)
\* backup calls one run makes at most
MaxCalls == 2

\* the directories a workspace backup can be asked for; <<"c">> holds nothing
SourceDirs == { <<"a">>, <<"b">>, <<"c">> }

\* the files under a directory (source_dir.rglob('*'))
FilesUnder(fs, source_dir) == { p \in DOMAIN fs : p[1] = source_dir[1] /\ fs[p] # Absent }

\* where the files of a copied directory can be written to
DirDests == { <<d, c, n, f>> : d \in DirIds, c \in {"directories", "workspace"},
                               n \in {name(sd) : sd \in SourceDirs},
                               f \in {name(p) : p \in AllPaths} }

\* backup_directory's dest_dir
DestDir(source_dir, backup_dir, relative_path) ==
    IF relative_path # None
    THEN <<backup_dir>> \o relative_path
    ELSE <<backup_dir, "directories", name(source_dir)>>

\* sum(f.stat().st_size for f in source_dir.rglob('*') if f.is_file())
RECURSIVE TotalSize(_, _)
TotalSize(fs, ps) ==
    IF ps = {}
    THEN 0
    ELSE LET p == CHOOSE q \in ps : TRUE IN Size(fs[p]) + TotalSize(fs, ps \ {p})

\* backup_directory. fault: "none", "copy" (shutil.copytree raises, caught)
\* or one of the faults of UpdateManifestFault. A directory exists when a
\* file is under it.
BackupDirectory(fs, st, mf, source_dir, backup_dir, relative_path, fault) ==
    LET dest_dir == DestDir(source_dir, backup_dir, relative_path)
        under == FilesUnder(fs, source_dir) IN
    IF under = {}
    THEN [ret |-> "false", store |-> st, manifests |-> mf]
    ELSE IF fault = "copy"
    THEN [ret |-> "false", store |-> st, manifests |-> mf]
    ELSE [ ret |-> "true",
           store |-> [d \in DOMAIN st |->
                        IF \E p \in under : d = dest_dir \o <<name(p)>>
                        THEN fs[CHOOSE p \in under : d = dest_dir \o <<name(p)>>]
                        ELSE st[d]],
           manifests |-> UpdateManifestFault(mf, backup_dir,
                            [ type |-> "directory",
                              source |-> source_dir,
                              destination |-> dest_dir,
                              size |-> TotalSize(fs, under) ], fault) ]

\* the caller: the backup directory of the run, the calls made so far and
\* the last call with what it returned
MfIdle == [pc |-> "start", dir |-> 0, calls |-> 0,
           last |-> [op |-> "none", source |-> None, destination |-> None,
                     size |-> 0, ret |-> "none"]]

MfInit ==
    /\ \E fs \in [AllPaths -> {ConfigFile("old_a", <<"a", "@", "x", ".", "i", "o">>),
                               DbFile(<<"log">>), Absent}] :
         /\ \A p \in Paths : fs[p] # DbFile(<<"log">>)
         /\ \A p \in DbPaths : fs[p] # ConfigFile("old_a", <<"a", "@", "x", ".", "i", "o">>)
         /\ files = fs
    /\ clock \in DirIds
    /\ dirs = {}
    /\ manifests = [d \in DirIds |-> NoManifest]
    /\ store = [d \in Dests \cup DirDests |-> Absent]
    /\ rt = MfIdle
    /\ dbc = DbcIdle
    /\ run = RunIdle
    /\ gui = GuiInit
    /\ acct = AcctIdle
    /\ cleaner = CleanerInit
    /\ term = TermIdle
    /\ cfg = CfgIdle

\* create_timestamped_backup_dir at the start of the run
MfCreateDir ==
    /\ rt.pc = "start"
    /\ \E writeOk \in BOOLEAN :
         LET r == CreateTimestampedBackupDir(dirs, manifests, clock, writeOk) IN
         /\ dirs' = r.dirs
         /\ manifests' = r.manifests
         /\ rt' = [rt EXCEPT !.pc = "dir", !.dir = r.dir]
    /\ UNCHANGED <<files, clock, store, dbc, run, gui, acct, cleaner, term, cfg>>

\* one call of backup_file
MfBackupFile ==
    /\ rt.pc = "dir"
    /\ rt.calls < MaxCalls
    /\ \E f \in AllPaths :
       \E rel \in {None, <<"config_files", name(f)>>, <<"account_files", name(f)>>} :
       \E fault \in {"none", "copy", "mkdir", "manifest_open", "manifest_write"} :
         LET r == BackupFile(files, store, manifests, f, rt.dir, rel, fault) IN
         /\ store' = r.store
         /\ manifests' = r.manifests
         /\ rt' = [rt EXCEPT !.calls = @ + 1,
                             !.last = [op |-> "file", source |-> f,
                                       destination |-> DestFile(f, rt.dir, rel),
                                       size |-> Size(files[f]), ret |-> r.ret]]
    /\ UNCHANGED <<files, clock, dirs, dbc, run, gui, acct, cleaner, term, cfg>>

\* one call of backup_directory
MfBackupDirectory ==
    /\ rt.pc = "dir"
    /\ rt.calls < MaxCalls
    /\ \E sd \in SourceDirs :
       \E rel \in {None, <<"workspace", name(sd)>>} :
       \E fault \in {"none", "copy", "manifest_open", "manifest_write"} :
         LET r == BackupDirectory(files, store, manifests, sd, rt.dir, rel, fault) IN
         /\ store' = r.store
         /\ manifests' = r.manifests
         /\ rt' = [rt EXCEPT !.calls = @ + 1,
                             !.last = [op |-> "directory", source |-> sd,
                                       destination |-> DestDir(sd, rt.dir, rel),
                                       size |-> TotalSize(files, FilesUnder(files, sd)),
                                       ret |-> r.ret]]
    /\ UNCHANGED <<files, clock, dirs, dbc, run, gui, acct, cleaner, term, cfg>>

MfNext == MfCreateDir \/ MfBackupFile \/ MfBackupDirectory

SpecManifest == MfInit /\ [][MfNext]_vars

\* the manifest's items list of the run's directory
Items(mf, d) == mf[d].items

\* C19: during a run the items list of the manifest only grows: a
\* backup_file or backup_directory call that returns True appends exactly
\* one entry (type, source, destination, size), a call that returns False
\* appends nothing, and no step removes or rewrites an earlier entry.
C19_ManifestAppendOnly ==
    [][ \A d \in DirIds :
          LET old == Items(manifests, d)
              new == Items(manifests', d) IN
          /\ Len(new) >= Len(old)
          /\ SubSeq(new, 1, Len(old)) = old
          /\ rt'.calls = rt.calls + 1 /\ d = rt.dir =>
               /\ rt'.last.ret = "true" =>
                    new = Append(old, [ type |-> rt'.last.op,
                                        source |-> rt'.last.source,
                                        destination |-> rt'.last.destination,
                                        size |-> rt'.last.size ])
               /\ rt'.last.ret = "false" => new = old ]_vars

(***************************************************************************)
(* config_manager.py: search_for_telemetry_ids and modify_telemetry_id on  *)
(* one configuration file. A JSON file is the value json.load gives for    *)
(* it (objects with their keys in file order, arrays, strings); json.dump  *)
(* followed by json.load gives such a value back unchanged.                *)
(***************************************************************************)
\* id_patterns: stem[_-]?id, or a literal when tail is empty
id_patterns ==
    << [stem |-> <<"d", "e", "v", "i", "c", "e">>, tail |-> <<"i", "d">>],
       [stem |-> <<"m", "a", "c", "h", "i", "n", "e">>, tail |-> <<"i", "d">>],
       [stem |-> <<"t", "e", "l", "e", "m", "e", "t", "r", "y">>, tail |-> <<"i", "d">>],
       [stem |-> <<"c", "l", "i", "e", "n", "t">>, tail |-> <<"i", "d">>],
       [stem |-> <<"u", "n", "i", "q", "u", "e">>, tail |-> <<"i", "d">>],
       [stem |-> <<"i", "n", "s", "t", "a", "l", "l", "a", "t", "i", "o", "n">>, tail |-> <<"i", "d">>],
       [stem |-> <<"s", "e", "s", "s", "i", "o", "n">>, tail |-> <<"i", "d">>],
       [stem |-> <<"u", "s", "e", "r">>, tail |-> <<"i", "d">>],
       [stem |-> <<"g", "u", "i", "d">>, tail |-> <<>>],
       [stem |-> <<"u", "u", "i", "d">>, tail |-> <<>>] >>

\* one pattern matched at index i of s with re.IGNORECASE: the index just
\* after the match, or 0
PatternAt(s, pattern, i) ==
    LET j == i + Len(pattern.stem) IN
    IF ~KeyAt(s, pattern.stem, i) THEN 0
    ELSE IF pattern.tail = <<>> THEN j
    ELSE IF j <= Len(s) /\ s[j] \in {"_", "-"} /\ KeyAt(s, pattern.tail, j + 1)
    THEN j + 1 + Len(pattern.tail)
    ELSE IF KeyAt(s, pattern.tail, j) THEN j + Len(pattern.tail)
    ELSE 0

\* re.search(pattern, key, re.IGNORECASE)
PatternSearch(pattern, key) == \E i \in 1..Len(key) : PatternAt(key, pattern, i) > 0

\* the first pattern of id_patterns that matches the key, or 0
FirstPattern(key) ==
    IF \E n \in 1..Len(id_patterns) : PatternSearch(id_patterns[n], key)
    THEN CHOOSE n \in 1..Len(id_patterns) :
            /\ PatternSearch(id_patterns[n], key)
            /\ \A m \in 1..(n - 1) : ~PatternSearch(id_patterns[m], key)
    ELSE 0

\* JSON values
JStr(s) == [t |-> "str", items |-> <<>>, s |-> s]
JDict(items) == [t |-> "dict", items |-> items, s |-> <<>>]
KV(k, v) == [k |-> k, v |-> v]
\* an array: its elements, under no key
JList(values) ==
    [t |-> "list", items |-> [i \in 1..Len(values) |-> KV(None, values[i])], s |-> <<>>]

\* `not data`
Falsy(data) == data.items = <<>> /\ data.s = <<>>

\* str(i) of a list index below ten
Str(i) == << <<"0", "1", "2", "3", "4", "5", "6", "7", "8", "9">>[i + 1] >>

\* search_dict of _search_json_for_ids: the records appended, in order
RECURSIVE SearchDict(_, _)
RECURSIVE SearchDictItems(_, _, _)
SearchDict(obj, path) ==
    IF obj.t \in {"dict", "list"} THEN SearchDictItems(obj, path, 1) ELSE <<>>

SearchDictItems(obj, path, i) ==
    IF i > Len(obj.items) THEN <<>>
    ELSE IF obj.t = "dict"
    THEN LET key == obj.items[i].k
             value == obj.items[i].v
             current_path == IF path # <<>> THEN path \o <<".">> \o key ELSE key
         IN (IF FirstPattern(key) > 0
             THEN << [ format |-> "json", key_path |-> current_path, key |-> key,
                       value |-> value, pattern_matched |-> FirstPattern(key) ] >>
             ELSE <<>>)
            \o SearchDict(value, current_path)
            \o SearchDictItems(obj, path, i + 1)
    ELSE SearchDict(obj.items[i].v, path \o <<"[">> \o Str(i - 1) \o <<"]">>)
            \o SearchDictItems(obj, path, i + 1)

\* _search_json_for_ids
SearchJsonForIds(data) == IF Falsy(data) THEN <<>> ELSE SearchDict(data, <<>>)

\* str.split(sep) for a separator of one character
RECURSIVE Split(_, _)
Split(s, sep) ==
    IF \E i \in 1..Len(s) : s[i] = sep
    THEN LET i == CHOOSE k \in 1..Len(s) : s[k] = sep /\ \A m \in 1..(k - 1) : s[m] # sep
         IN <<SubSeq(s, 1, i - 1)>> \o Split(SubSeq(s, i + 1, Len(s)), sep)
    ELSE <<s>>

\* `key in current`: a key of an object, an element of an array, a
\* substring of a string
In(key, current) ==
    CASE current.t = "dict" -> \E i \in 1..Len(current.items) : current.items[i].k = key
      [] current.t = "list" -> \E i \in 1..Len(current.items) : current.items[i].v = JStr(key)
      [] OTHER -> Contains(current.s, key)

\* the navigation of _modify_json_id from keys[i] on: whether the final
\* key was set, and the value written back. current[key] with a string key
\* on an array or a string raises; modify_telemetry_id returns False then.
RECURSIVE SetKey(_, _, _, _)
SetKey(current, keys, i, new_value) ==
    IF ~In(keys[i], current) \/ current.t # "dict"
    THEN [ok |-> FALSE, data |-> current]
    ELSE LET n == CHOOSE m \in 1..Len(current.items) : current.items[m].k = keys[i] IN
         IF i = Len(keys)
         THEN [ok |-> TRUE, data |-> [current EXCEPT !.items[n].v = JStr(new_value)]]
         ELSE LET r == SetKey(current.items[n].v, keys, i + 1, new_value) IN
              [ok |-> r.ok, data |-> [current EXCEPT !.items[n].v = r.data]]

\* _modify_json_id; safe_write_json succeeds
ModifyJsonId(data, id_info, new_value) ==
    IF Falsy(data)
    THEN [ret |-> FALSE, content |-> data]
    ELSE LET r == SetKey(data, Split(id_info.key_path, "."), 1, new_value) IN
         [ret |-> r.ok, content |-> IF r.ok THEN r.data ELSE data]

\* the regular expression of _search_text_for_ids,
\* (pattern)\s*[=:]\s*([^\s\n]+), matched at index i of the line:
\* <<first of group 1, last of group 1, first of group 2, last of group 2>>, or <<>>
TextMatch(line, pattern, i) ==
    LET e == PatternAt(line, pattern, i)
        p == RunEnd(line, e, Whitespace)
        q == RunEnd(line, p + 1, Whitespace)
        z == RunEnd(line, q, {line[m] : m \in 1..Len(line)} \ Whitespace)
    IN IF /\ e > 0
          /\ p <= Len(line) /\ line[p] \in {"=", ":"}
          /\ q <= Len(line)
       THEN <<i, e - 1, q, z - 1>>
       ELSE <<>>

\* re.search of that expression in the line: the leftmost match, or <<>>
TextSearch(line, pattern) ==
    IF \E i \in 1..Len(line) : TextMatch(line, pattern, i) # <<>>
    THEN TextMatch(line, pattern,
                   CHOOSE i \in 1..Len(line) :
                      /\ TextMatch(line, pattern, i) # <<>>
                      /\ \A m \in 1..(i - 1) : TextMatch(line, pattern, m) = <<>>)
    ELSE <<>>

\* the records of one line, one for every pattern that matches it
RECURSIVE SearchLine(_, _, _)
SearchLine(line, line_num, n) ==
    IF n > Len(id_patterns) THEN <<>>
    ELSE LET match == TextSearch(line, id_patterns[n]) IN
         (IF match # <<>>
          THEN << [ format |-> "text", line_number |-> line_num,
                    key |-> SubSeq(line, match[1], match[2]),
                    value |-> SubSeq(line, match[3], match[4]),
                    pattern_matched |-> n ] >>
          ELSE <<>>)
         \o SearchLine(line, line_num, n + 1)

RECURSIVE SearchLines(_, _)
SearchLines(lines, line_num) ==
    IF line_num > Len(lines) THEN <<>>
    ELSE SearchLine(lines[line_num], line_num, 1) \o SearchLines(lines, line_num + 1)

\* _search_text_for_ids
SearchTextForIds(content) == SearchLines(Split(content, "\n"), 1)

\* f.readlines(): the lines with their line ends
RECURSIVE ReadLines(_)
ReadLines(content) ==
    IF content = <<>> THEN <<>>
    ELSE IF \E i \in 1..Len(content) : content[i] = "\n"
    THEN LET i == CHOOSE k \in 1..Len(content) :
                     content[k] = "\n" /\ \A m \in 1..(k - 1) : content[m] # "\n"
         IN <<SubSeq(content, 1, i)>> \o ReadLines(SubSeq(content, i + 1, Len(content)))
    ELSE <<content>>

\* f.writelines(lines)
RECURSIVE WriteLines(_, _)
WriteLines(lines, i) ==
    IF i > Len(lines) THEN <<>> ELSE lines[i] \o WriteLines(lines, i + 1)

\* _modify_text_id
ModifyTextId(content, id_info, new_value) ==
    LET lines == ReadLines(content)
        line_number == id_info.line_number
        key == id_info.key
        old_value == id_info.value
    IN IF line_number <= Len(lines)
       THEN LET old_line == lines[line_number]
                new_line == Replace(Replace(old_line, key \o <<"=">> \o old_value,
                                                      key \o <<"=">> \o new_value),
                                    key \o <<":">> \o old_value,
                                    key \o <<":">> \o new_value)
            IN IF new_line # old_line
               THEN [ret |-> TRUE,
                     content |-> WriteLines([lines EXCEPT ![line_number] = new_line], 1)]
               ELSE [ret |-> FALSE, content |-> content]
       ELSE [ret |-> FALSE, content |-> content]

\* An INI file is its sections in file order, each with its options in file
\* order; defaults are the options of [DEFAULT]. ConfigParser.read lowers
\* the option names (optionxform).
IniFile(defaults, sections) == [defaults |-> defaults, sections |-> sections]
Section(n, items) == [name |-> n, items |-> items]
LowerKeys(items) == [i \in 1..Len(items) |-> KV(Lower(items[i].k), items[i].v)]
IniRead(content) ==
    IniFile(LowerKeys(content.defaults),
            [i \in 1..Len(content.sections) |->
                Section(content.sections[i].name, LowerKeys(content.sections[i].items))])

HasKey(items, key) == \E i \in 1..Len(items) : items[i].k = key
ValueOf(items, key) == items[CHOOSE i \in 1..Len(items) : items[i].k = key].v
DefaultsNotIn(items, own) == SelectSeq(items, LAMBDA it : ~HasKey(own, it.k))

\* section.items(): the options of the section, then the defaults it does
\* not set itself
SectionItems(config, section) == section.items \o DefaultsNotIn(config.defaults, section.items)

RECURSIVE SearchSectionItems(_, _, _)
SearchSectionItems(section_name, items, i) ==
    IF i > Len(items) THEN <<>>
    ELSE (IF FirstPattern(items[i].k) > 0
          THEN << [ format |-> "ini", section |-> section_name, key |-> items[i].k,
                    value |-> items[i].v, pattern_matched |-> FirstPattern(items[i].k) ] >>
          ELSE <<>>)
         \o SearchSectionItems(section_name, items, i + 1)

RECURSIVE SearchSections(_, _)
SearchSections(config, i) ==
    IF i > Len(config.sections) THEN <<>>
    ELSE SearchSectionItems(config.sections[i].name,
                            SectionItems(config, config.sections[i]), 1)
         \o SearchSections(config, i + 1)

\* _search_ini_for_ids
SearchIniForIds(content) == SearchSections(IniRead(content), 1)

\* _modify_ini_id; config.write writes the options under their lowered names
ModifyIniId(content, id_info, new_value) ==
    LET config == IniRead(content)
        key == Lower(id_info.key)
    IN IF \E i \in 1..Len(config.sections) :
             /\ config.sections[i].name = id_info.section
             /\ HasKey(SectionItems(config, config.sections[i]), key)
       THEN LET i == CHOOSE m \in 1..Len(config.sections) :
                        config.sections[m].name = id_info.section
                own == config.sections[i].items
                set == IF HasKey(own, key)
                       THEN [m \in 1..Len(own) |->
                               IF own[m].k = key THEN KV(key, new_value) ELSE own[m]]
                       ELSE Append(own, KV(key, new_value))
            IN [ret |-> TRUE, content |-> [config EXCEPT !.sections[i].items = set]]
       ELSE [ret |-> FALSE, content |-> content]

\* An XML file is its elements in document order (the order of root.iter()
\* and of search_element), each with its depth below the root; an element
\* without text has text None.
Element(tag, text, attrib, depth) == [tag |-> tag, text |-> text, attrib |-> attrib, depth |-> depth]

\* the element that holds element i at the given depth
Ancestor(elements, i, depth) ==
    CHOOSE j \in 1..(i - 1) :
        /\ elements[j].depth = depth
        /\ \A m \in (j + 1)..(i - 1) : elements[m].depth > depth

\* current_path of search_element
RECURSIVE ElementPath(_, _, _)
ElementPath(elements, i, depth) ==
    IF depth = elements[i].depth
    THEN elements[i].tag
    ELSE elements[Ancestor(elements, i, depth)].tag \o <<"/">> \o ElementPath(elements, i, depth + 1)

RECURSIVE SearchAttrib(_, _, _)
SearchAttrib(elements, i, a) ==
    IF a > Len(elements[i].attrib) THEN <<>>
    ELSE LET attr_name == elements[i].attrib[a].k IN
         (IF FirstPattern(attr_name) > 0
          THEN << [ format |-> "xml", element_path |-> ElementPath(elements, i, 0),
                    attribute |-> attr_name, tag |-> None,
                    value |-> elements[i].attrib[a].v,
                    pattern_matched |-> FirstPattern(attr_name), type |-> "attribute" ] >>
          ELSE <<>>)
         \o SearchAttrib(elements, i, a + 1)

RECURSIVE SearchElement(_, _)
SearchElement(elements, i) ==
    IF i > Len(elements) THEN <<>>
    ELSE (IF FirstPattern(elements[i].tag) > 0
          THEN << [ format |-> "xml", element_path |-> ElementPath(elements, i, 0),
                    attribute |-> None, tag |-> elements[i].tag,
                    value |-> elements[i].text,
                    pattern_matched |-> FirstPattern(elements[i].tag), type |-> "element" ] >>
          ELSE <<>>)
         \o SearchAttrib(elements, i, 1)
         \o SearchElement(elements, i + 1)

\* _search_xml_for_ids
SearchXmlForIds(content) == SearchElement(content, 1)

\* the first element of root.iter() that satisfies the test, or 0
FirstElement(elements, Test(_)) ==
    IF \E i \in 1..Len(elements) : Test(elements[i])
    THEN CHOOSE i \in 1..Len(elements) :
            Test(elements[i]) /\ \A m \in 1..(i - 1) : ~Test(elements[m])
    ELSE 0

\* an XML rewrite that changes the text of the last element of the file
\* with the recorded tag and value
ModifyXmlIdLast(content, id_info, new_value) ==
    LET hits == { i \in 1..Len(content) :
                    content[i].tag = id_info.tag /\ content[i].text = id_info.value }
    IN IF id_info.type = "element" /\ hits # {}
       THEN LET i == CHOOSE h \in hits : \A g \in hits : g <= h IN
            [ret |-> TRUE, content |-> [content EXCEPT ![i].text = new_value]]
       ELSE [ret |-> id_info.type # "element", content |-> content]

\* _modify_xml_id
ModifyXmlId(content, id_info, new_value) ==
    IF id_info.type = "element"
    THEN LET i == FirstElement(content,
                    LAMBDA elem : elem.tag = id_info.tag /\ elem.text = id_info.value)
         IN IF i > 0
            THEN [ret |-> TRUE, content |-> [content EXCEPT ![i].text = new_value]]
            ELSE [ret |-> FALSE, content |-> content]
    ELSE LET i == FirstElement(content,
                    LAMBDA elem : /\ HasKey(elem.attrib, id_info.attribute)
                                  /\ ValueOf(elem.attrib, id_info.attribute) = id_info.value)
         IN IF i > 0
            THEN [ret |-> TRUE,
                  content |-> [content EXCEPT ![i].attrib =
                                 [m \in 1..Len(@) |->
                                    IF @[m].k = id_info.attribute
                                    THEN KV(@[m].k, new_value) ELSE @[m]]]]
            ELSE [ret |-> FALSE, content |-> content]

\* search_for_telemetry_ids on one file, by its suffix
SearchForTelemetryIds(file) ==
    CASE file.suffix = "json" -> SearchJsonForIds(file.content)
      [] file.suffix = "ini" -> SearchIniForIds(file.content)
      [] file.suffix = "xml" -> SearchXmlForIds(file.content)
      [] OTHER -> SearchTextForIds(file.content)

\* modify_telemetry_id: the value returned and the file afterwards
ModifyTelemetryIdIn(content, id_info, new_value) ==
    CASE id_info.format = "json" -> ModifyJsonId(content, id_info, new_value)
      [] id_info.format = "ini" -> ModifyIniId(content, id_info, new_value)
      [] id_info.format = "xml" -> ModifyXmlId(content, id_info, new_value)
      [] OTHER -> ModifyTextId(content, id_info, new_value)

\* lines a text file holds at most
MaxLines == 2

\* the JSON files: a top-level field, fields nested in objects, fields
\* nested in arrays, an object under a matching key, a key with a dot
JsonFiles ==
    { JDict(<<KV(<<"d", "e", "v", "i", "c", "e", "_", "i", "d">>, JStr(<<"x">>))>>),
      JDict(<<KV(<<"i", "t", "e", "m", "s">>, JList(<<JDict(<<KV(<<"d", "e", "v", "i", "c", "e", "_", "i", "d">>, JStr(<<"x">>))>>)>>))>>),
      JList(<<JDict(<<KV(<<"d", "e", "v", "i", "c", "e", "_", "i", "d">>, JStr(<<"x">>))>>)>>),
      JDict(<<KV(<<"a">>, JDict(<<KV(<<"D", "e", "v", "i", "c", "e", "-", "I", "d">>, JStr(<<"x">>))>>))>>),
      JDict(<<KV(<<"a", ".", "b">>, JDict(<<KV(<<"u", "u", "i", "d">>, JStr(<<"x">>))>>))>>),
      JDict(<<KV(<<"u", "u", "i", "d">>, JDict(<<KV(<<"g", "u", "i", "d">>, JStr(<<"x">>))>>))>>),
      JDict(<<KV(<<"a">>, JDict(<<KV(<<"b">>, JList(<<JStr(<<"k">>), JDict(<<KV(<<"u", "u", "i", "d">>, JStr(<<"x">>))>>)>>))>>)),
              KV(<<"u", "u", "i", "d">>, JStr(<<"y">>))>>),
      JDict(<<KV(<<"n", "a", "m", "e">>, JStr(<<"x">>))>>),
      JDict(<<>>) }

\* the lines of the text files: with and without spaces around '=' and ':'
TextLines ==
    { <<"d", "e", "v", "i", "c", "e", "_", "i", "d", "=", "x">>, <<"d", "e", "v", "i", "c", "e", "_", "i", "d", " ", "=", " ", "x">>, <<"d", "e", "v", "i", "c", "e", "_", "i", "d", ":", " ", "x">>, <<"d", "e", "v", "i", "c", "e", "_", "i", "d", ":", "x">>,
      <<"u", "s", "e", "r", "_", "i", "d", "=", "x", " ", "u", "u", "i", "d", "=", "x">>, <<"m", "y", "_", "d", "e", "v", "i", "c", "e", "_", "i", "d", "=", "x", ";">>, <<"U", "U", "I", "D", " ", "=", "y">>, <<"n", "a", "m", "e", "=", "x">> }

TextFiles ==
    UNION { { WriteLines([i \in 1..n |-> ls[i] \o <<"\n">>], 1) : ls \in [1..n -> TextLines] }
            : n \in 1..MaxLines }

IniFiles ==
    { IniFile(<<>>, <<Section(<<"s">>, <<KV(<<"d", "e", "v", "i", "c", "e", "_", "i", "d">>, <<"x">>)>>)>>),
      IniFile(<<>>, <<Section(<<"s">>, <<KV(<<"D", "e", "v", "i", "c", "e", "_", "I", "D">>, <<"x">>), KV(<<"n", "a", "m", "e">>, <<"x">>)>>)>>),
      IniFile(<<KV(<<"u", "u", "i", "d">>, <<"d">>), KV(<<"d", "e", "v", "i", "c", "e", "_", "i", "d">>, <<"e">>)>>,
              <<Section(<<"s">>, <<KV(<<"d", "e", "v", "i", "c", "e", "_", "i", "d">>, <<"x">>)>>), Section(<<"t">>, <<KV(<<"k">>, <<"1">>)>>)>>),
      IniFile(<<>>, <<Section(<<"s">>, <<KV(<<"n", "a", "m", "e">>, <<"x">>)>>)>>) }

XmlFiles ==
    { <<Element(<<"r">>, None, <<>>, 0), Element(<<"d", "e", "v", "i", "c", "e", "_", "i", "d">>, <<"x">>, <<>>, 1)>>,
      <<Element(<<"r">>, None, <<>>, 0), Element(<<"a">>, None, <<>>, 1),
        Element(<<"u", "u", "i", "d">>, <<"x">>, <<>>, 2), Element(<<"b">>, None, <<KV(<<"g", "u", "i", "d">>, <<"x">>)>>, 1)>>,
      <<Element(<<"r">>, None, <<KV(<<"u", "u", "i", "d">>, <<"u">>)>>, 0), Element(<<"u", "u", "i", "d">>, None, <<>>, 1),
        Element(<<"v">>, <<"1">>, <<>>, 2)>>,
      <<Element(<<"r">>, None, <<>>, 0), Element(<<"d", "e", "v", "i", "c", "e", "_", "i", "d">>, <<"x">>, <<>>, 1),
        Element(<<"d", "e", "v", "i", "c", "e", "_", "i", "d">>, <<"x">>, <<>>, 1)>>,
      <<Element(<<"r">>, None, <<>>, 0), Element(<<"a">>, None, <<KV(<<"g", "u", "i", "d">>, <<"x">>)>>, 1),
        Element(<<"b">>, None, <<KV(<<"g", "u", "i", "d">>, <<"x">>)>>, 1)>>,
      <<Element(<<"r">>, None, <<>>, 0), Element(<<"n", "a", "m", "e">>, <<"x">>, <<>>, 1)>> }

\* the files of one suffix
ConfigFiles(suffix) ==
    CASE suffix = "json" -> JsonFiles
      [] suffix = "ini" -> IniFiles
      [] suffix = "xml" -> XmlFiles
      [] OTHER -> TextFiles

\* the replacement identifiers
NewValues == { <<"N", "E", "W">>, <<"n", "-", "2">> }

CfgInit ==
    /\ \E suffix \in {"json", "ini", "xml", "txt"} :
       \E content \in ConfigFiles(suffix) : \E new_value \in NewValues :
         cfg = [ pc |-> "start", file |-> [suffix |-> suffix, content |-> content],
                 new_value |-> new_value,
                 found_ids |-> <<>>, k |-> 0, ret |-> FALSE, after |-> content ]
    /\ files = [p \in AllPaths |-> Absent]
    /\ FsInit
    /\ rt = RtIdle
    /\ dbc = DbcIdle
    /\ run = RunIdle
    /\ gui = GuiInit
    /\ acct = AcctIdle
    /\ cleaner = CleanerInit
    /\ term = TermIdle

\* search_for_telemetry_ids([config_file])
CfgSearch ==
    /\ cfg.pc = "start"
    /\ cfg' = [cfg EXCEPT !.pc = "searched", !.found_ids = SearchForTelemetryIds(cfg.file)]
    /\ UNCHANGED <<fsVars, rt, dbc, run, gui, acct, cleaner, term>>

\* modify_telemetry_id on one of the records, the file as it was searched
CfgModify ==
    /\ cfg.pc = "searched"
    /\ \E k \in 1..Len(cfg.found_ids) :
         LET r == ModifyTelemetryIdIn(cfg.file.content, cfg.found_ids[k], cfg.new_value) IN
         cfg' = [cfg EXCEPT !.pc = "modified", !.k = k, !.ret = r.ret, !.after = r.content]
    /\ UNCHANGED <<fsVars, rt, dbc, run, gui, acct, cleaner, term>>

CfgNext == CfgSearch \/ CfgModify

SpecConfig == CfgInit /\ [][CfgNext]_vars

\* the value new_value has in a file of the record's format
AsValue(id_info, new_value) == IF id_info.format = "json" THEN JStr(new_value) ELSE new_value

\* the record that addresses, in a second search, the field id_info
\* addressed in the first one (its k-th record): for a JSON or an XML file
\* the k-th record again, for an INI file the record of the same section
\* and option, for a text file the record of the same line and pattern
SameField(again, id_info, k) ==
    { j \in 1..Len(again) :
        CASE id_info.format \in {"json", "xml"} -> j = k
          [] id_info.format = "ini" ->
                again[j].section = id_info.section /\ again[j].key = id_info.key
          [] OTHER -> /\ again[j].line_number = id_info.line_number
                      /\ again[j].pattern_matched = id_info.pattern_matched }

\* C20: every record search_for_telemetry_ids returns can be rewritten by
\* modify_telemetry_id on the unchanged file: the call returns True and
\* the field the record addresses then holds the new value, for JSON
\* (fields nested in arrays included), INI, XML and text files (lines with
\* spaces around '=' or ':' included).
C20_RecordsRewritable ==
    cfg.pc = "modified" =>
        /\ cfg.ret = TRUE
        /\ LET id_info == cfg.found_ids[cfg.k]
               again == SearchForTelemetryIds([suffix |-> cfg.file.suffix, content |-> cfg.after])
           IN /\ SameField(again, id_info, cfg.k) # {}
              /\ \A j \in SameField(again, id_info, cfg.k) :
                    again[j].value = AsValue(id_info, cfg.new_value)

(***************************************************************************)
(* backup_manager.py, data_cleaner.py: restore_from_backup on a backup     *)
(* directory that backup calls have filled, after backup copies were lost  *)
(* or the manifest was damaged.                                            *)
(***************************************************************************)
\* a manifest whose bytes are not UTF-8, or whose path is a directory: open
\* or read raises an error safe_read_json does not catch
Undecodable == [readable |-> FALSE, items |-> <<>>, raises |-> TRUE]
ReadRaises(manifest) == "raises" \in DOMAIN manifest

\* BackupManager.restore_from_backup as its caller sees it: "true", "false"
\* or "raise"
RestoreFromBackupCall(fs, st, mf, backup_dir) ==
    IF ReadRaises(mf[backup_dir])
    THEN [ret |-> "raise", files |-> fs]
    ELSE LET r == RestoreFromBackup(fs, st, mf, backup_dir) IN
         [ret |-> IF r.ret THEN "true" ELSE "false", files |-> r.files]

\* FreeAugmentCodeCleaner.restore_from_backup: the except clause turns an
\* exception into set_error and False
CleanerRestoreFromBackup(fs, st, mf, backup_path, status) ==
    LET r == RestoreFromBackupCall(fs, st, mf, backup_path) IN
    IF r.ret = "raise"
    THEN [ret |-> "false", files |-> r.files, status |-> SetError(Update(status, FALSE))]
    ELSE [ret |-> r.ret, files |-> r.files, status |-> Update(Update(status, FALSE), FALSE)]

RsIdle == [pc |-> "start", dir |-> 0, calls |-> 0, files0 |-> <<>>, mf0 |-> NoManifest,
           op |-> "none", ret |-> "none"]

RsInit ==
    /\ \E fs \in [AllPaths -> {ConfigFile("old_a", <<"a", "@", "x", ".", "i", "o">>),
                               DbFile(<<"log">>), Absent}] :
         /\ \A p \in Paths : fs[p] # DbFile(<<"log">>)
         /\ \A p \in DbPaths : fs[p] # ConfigFile("old_a", <<"a", "@", "x", ".", "i", "o">>)
         /\ fs[<<"a", "cfg.json">>] # Absent
         /\ files = fs
    /\ clock = 0
    /\ dirs = {}
    /\ manifests = [d \in DirIds |-> NoManifest]
    /\ store = [d \in Dests \cup DirDests |-> Absent]
    /\ rt = RsIdle
    /\ dbc = DbcIdle
    /\ run = RunIdle
    /\ gui = GuiInit
    /\ acct = AcctIdle
    /\ cleaner = CleanerInit
    /\ term = TermIdle
    /\ cfg = CfgIdle

\* create_timestamped_backup_dir; the directory may already be there
\* without a manifest
RsCreateDir ==
    /\ rt.pc = "start"
    /\ \E writeOk \in BOOLEAN :
         LET r == CreateTimestampedBackupDir(dirs, manifests, clock, writeOk) IN
         /\ dirs' = r.dirs
         /\ manifests' = r.manifests
         /\ rt' = [rt EXCEPT !.pc = "dir", !.dir = r.dir]
    /\ UNCHANGED <<files, clock, store, dbc, run, gui, acct, cleaner, term, cfg>>

\* a backup_file call that returns True
RsBackupFile ==
    /\ rt.pc = "dir"
    /\ rt.calls < MaxCalls
    /\ \E f \in Paths : \E rel \in {None, <<"config_files", name(f)>>} :
         LET r == BackupFile(files, store, manifests, f, rt.dir, rel, "none") IN
         /\ r.ret = "true"
         /\ store' = r.store
         /\ manifests' = r.manifests
         /\ rt' = [rt EXCEPT !.calls = @ + 1]
    /\ UNCHANGED <<files, clock, dirs, dbc, run, gui, acct, cleaner, term, cfg>>

\* a backup_directory call that returns True
RsBackupDirectory ==
    /\ rt.pc = "dir"
    /\ rt.calls < MaxCalls
    /\ \E sd \in SourceDirs :
         LET r == BackupDirectory(files, store, manifests, sd, rt.dir, <<"workspace", name(sd)>>, "none") IN
         /\ r.ret = "true"
         /\ store' = r.store
         /\ manifests' = r.manifests
         /\ rt' = [rt EXCEPT !.calls = @ + 1]
    /\ UNCHANGED <<files, clock, dirs, dbc, run, gui, acct, cleaner, term, cfg>>

\* the cleanup that follows the backups: a backed-up file is rewritten or
\* deleted
RsEdit ==
    /\ rt.pc = "dir"
    /\ \E p \in Paths : \E c \in {ConfigFile("new", Removed), Absent} :
         /\ files[p] # c
         /\ files' = [files EXCEPT ![p] = c]
    /\ rt' = [rt EXCEPT !.pc = "cleaned"]
    /\ UNCHANGED <<clock, dirs, manifests, store, dbc, run, gui, acct, cleaner, term, cfg>>

\* what happens to a backup directory before it is restored: one backup
\* copy is deleted, or the manifest is deleted, truncated or overwritten
\* with bytes that are not UTF-8
RsDamage ==
    /\ rt.pc \in {"dir", "cleaned"}
    /\ \/ /\ \E d \in DOMAIN store :
               /\ store[d] # Absent
               /\ store' = [store EXCEPT ![d] = Absent]
          /\ UNCHANGED manifests
       \/ /\ \E m \in {NoManifest, Undecodable} :
               manifests' = [manifests EXCEPT ![rt.dir] = m]
          /\ UNCHANGED store
    /\ rt' = [rt EXCEPT !.pc = "damaged"]
    /\ UNCHANGED <<files, clock, dirs, dbc, run, gui, acct, cleaner, term, cfg>>

\* BackupManager.restore_from_backup(backup_dir)
RsRestore ==
    /\ rt.pc \in {"dir", "cleaned", "damaged"}
    /\ LET r == RestoreFromBackupCall(files, store, manifests, rt.dir) IN
       /\ files' = r.files
       /\ rt' = [rt EXCEPT !.pc = "restored", !.op = "manager", !.ret = r.ret,
                           !.files0 = files, !.mf0 = manifests[rt.dir]]
    /\ UNCHANGED <<clock, dirs, manifests, store, dbc, run, gui, acct, cleaner, term, cfg>>

\* FreeAugmentCodeCleaner.restore_from_backup(backup_path)
RsCleanerRestore ==
    /\ rt.pc \in {"dir", "cleaned", "damaged"}
    /\ LET r == CleanerRestoreFromBackup(files, store, manifests, rt.dir, cleaner.status) IN
       /\ files' = r.files
       /\ cleaner' = [cleaner EXCEPT !.status = r.status]
       /\ rt' = [rt EXCEPT !.pc = "restored", !.op = "cleaner", !.ret = r.ret,
                           !.files0 = files, !.mf0 = manifests[rt.dir]]
    /\ UNCHANGED <<clock, dirs, manifests, store, dbc, run, gui, acct, term, cfg>>

RsNext ==
    \/ RsCreateDir \/ RsBackupFile \/ RsBackupDirectory \/ RsEdit
    \/ RsDamage \/ RsRestore \/ RsCleanerRestore

SpecRestore == RsInit /\ [][RsNext]_vars

\* C21: restore_from_backup on a directory that has no backup_manifest.json,
\* or whose manifest cannot be read, returns False without raising and
\* without changing any file.
C21_NoManifestReturnsFalse ==
    rt.pc = "restored" /\ ~rt.mf0.readable =>
        rt.ret = "false" /\ files = rt.files0

\* the backup copy of a manifest item is there to be copied back
CopyExists(st, item) ==
    IF item.type = "file"
    THEN st[item.destination] # Absent
    ELSE CopiedUnder(st, item.destination) # {}

\* C26: restore_from_backup returns True only when every file and directory
\* item listed in the manifest was restored to its source path; a restore in
\* which some listed item could not be restored returns False.
C26_TrueOnlyWhenAllRestored ==
    rt.pc = "restored" /\ rt.mf0.readable =>
        (rt.ret = "true" <=>
            /\ rt.mf0.items # <<>>
            /\ \A i \in 1..Len(rt.mf0.items) : CopyExists(store, rt.mf0.items[i]))

\* the node carries the recorded tag (or attribute name) and value
Recorded(elem, id_info) ==
    IF id_info.type = "element"
    THEN elem.tag = id_info.tag /\ elem.text = id_info.value
    ELSE \E a \in 1..Len(elem.attrib) :
            elem.attrib[a].k = id_info.attribute /\ elem.attrib[a].v = id_info.value

\* the node with the recorded text or attribute set to the new value
Rewritten(elem, id_info, new_value) ==
    IF id_info.type = "element"
    THEN [elem EXCEPT !.text = new_value]
    ELSE [elem EXCEPT !.attrib = [a \in 1..Len(elem.attrib) |->
                                    IF elem.attrib[a].k = id_info.attribute
                                    THEN KV(elem.attrib[a].k, new_value)
                                    ELSE elem.attrib[a]]]

LockPath == <<"a", "x.lock">>
WsPaths == AllPaths \cup {LockPath}
IsLockFile(p) == name(p) = "x.lock"

\* the type an item carries in workspace_info (given to clean_workspace)
ItemType(p) == IF name(p) \in {"x.lock", "user.json"} THEN "session_file" ELSE "temp_file"

\* where the copies of a workspace are written
WsDests == { <<d, "workspace", n, f>> : d \in DirIds, n \in {name(sd) : sd \in SourceDirs},
                                        f \in {name(p) : p \in WsPaths} }

\* the loop over cleanable_items from item i on: the disk afterwards and
\* success. denied: the paths whose unlink raises
RECURSIVE CleanItems(_, _, _, _, _, _)
CleanItems(cleanable_items, i, selected_items, fs, denied, success) ==
    IF i > Len(cleanable_items)
    THEN [files |-> fs, success |-> success]
    ELSE LET item_info == cleanable_items[i] IN
         IF item_info.type \notin selected_items
         THEN CleanItems(cleanable_items, i + 1, selected_items, fs, denied, success)
         ELSE IF fs[item_info.path] # Absent /\ item_info.path \in denied
         THEN CleanItems(cleanable_items, i + 1, selected_items, fs, denied, FALSE)
         ELSE CleanItems(cleanable_items, i + 1, selected_items,
                         [fs EXCEPT ![item_info.path] = Absent], denied, success)

\* _remove_lock_files: a lock file that cannot be removed is logged and
\* kept, the result is True
RemoveLockFiles(fs, workspace_path, denied) ==
    [p \in DOMAIN fs |->
        IF p[1] = workspace_path[1] /\ IsLockFile(p) /\ p \notin denied THEN Absent ELSE fs[p]]

\* clean_workspace (the modelled workspaces hold no cache directory, so
\* _clear_all_cache_directories finds nothing). backup: what
\* backup_directory returned, "skipped" when it was not asked for
CleanWorkspace(fs, st, mf, workspace_info, backup_dir, cleanup_options, fault, denied) ==
    LET workspace_path == workspace_info.path
        b == IF cleanup_options.backup_workspace
             THEN BackupDirectory(fs, st, mf, workspace_path, backup_dir,
                                  <<"workspace", name(workspace_path)>>, fault)
             ELSE [ret |-> "skipped", store |-> st, manifests |-> mf]
    IN IF b.ret = "false"
       THEN [ret |-> FALSE, backup |-> b.ret, files |-> fs, store |-> b.store, manifests |-> b.manifests]
       ELSE LET c == CleanItems(workspace_info.cleanable_items, 1,
                                cleanup_options.selected_items, fs, denied, TRUE)
                after == IF cleanup_options.remove_lock_files
                         THEN RemoveLockFiles(c.files, workspace_path, denied)
                         ELSE c.files
            IN [ret |-> c.success, backup |-> b.ret, files |-> after,
                store |-> b.store, manifests |-> b.manifests]

\* the items discovery can have listed for a workspace: files of it, in
\* path order of the listing
ItemLists(fs, ws) ==
    { SelectSeq(<< <<ws[1], "cfg.json">>, <<ws[1], "user.json">>, <<ws[1], "x.lock">> >>,
                LAMBDA p : p \in chosen) : chosen \in SUBSET FilesUnder(fs, ws) }

WsIdle == [pc |-> "start", dir |-> 0, calls |-> 0,
           last |-> [path |-> None, backup |-> "none", ret |-> FALSE]]

WsInit ==
    /\ \E present \in SUBSET {<<"a", "cfg.json">>, <<"a", "user.json">>, LockPath, <<"b", "cfg.json">>} :
         files = [p \in WsPaths |->
                    IF p \in present
                    THEN ConfigFile("old_a", <<"a", "@", "x", ".", "i", "o">>)
                    ELSE Absent]
    /\ clock = 0
    /\ dirs = {}
    /\ manifests = [d \in DirIds |-> NoManifest]
    /\ store = [d \in Dests \cup WsDests |-> Absent]
    /\ rt = WsIdle
    /\ dbc = DbcIdle
    /\ run = RunIdle
    /\ gui = GuiInit
    /\ acct = AcctIdle
    /\ cleaner = CleanerInit
    /\ term = TermIdle
    /\ cfg = CfgIdle

\* perform_cleanup: create_timestamped_backup_dir
WsCreateDir ==
    /\ rt.pc = "start"
    /\ \E writeOk \in BOOLEAN :
         LET r == CreateTimestampedBackupDir(dirs, manifests, clock, writeOk) IN
         /\ dirs' = r.dirs
         /\ manifests' = r.manifests
         /\ rt' = [rt EXCEPT !.pc = "dir", !.dir = r.dir]
    /\ UNCHANGED <<files, clock, store, dbc, run, gui, acct, cleaner, term, cfg>>

\* perform_cleanup: clean_workspace for one workspace of the run
WsCleanWorkspace ==
    /\ rt.pc = "dir"
    /\ rt.calls < MaxCalls
    /\ \E ws \in {<<"a">>, <<"b">>} :
       \E items \in ItemLists(files, ws) :
       \E backup_workspace \in BOOLEAN, remove_lock_files \in BOOLEAN :
       \E selected_items \in {{"cache_folder", "temp_file"},
                              {"cache_folder", "temp_file", "session_file"}} :
       \E fault \in {"none", "copy", "manifest_open"} :
       \E denied \in {{}, {<<"a", "cfg.json">>}} :
         LET r == CleanWorkspace(files, store, manifests,
                     [path |-> ws,
                      cleanable_items |-> [i \in 1..Len(items) |->
                                             [type |-> ItemType(items[i]), path |-> items[i]]]],
                     rt.dir,
                     [backup_workspace |-> backup_workspace,
                      selected_items |-> selected_items,
                      remove_lock_files |-> remove_lock_files],
                     fault, denied) IN
         /\ files' = r.files
         /\ store' = r.store
         /\ manifests' = r.manifests
         /\ rt' = [rt EXCEPT !.calls = @ + 1,
                             !.last = [path |-> ws, backup |-> r.backup, ret |-> r.ret]]
    /\ UNCHANGED <<clock, dirs, dbc, run, gui, acct, cleaner, term, cfg>>

WsNext == WsCreateDir \/ WsCleanWorkspace

SpecWorkspace == WsInit /\ [][WsNext]_vars

\* the run's manifest holds a directory entry for the workspace
HasDirectoryEntry(mf, backup_dir, path) ==
    \E i \in 1..Len(mf[backup_dir].items) :
        /\ mf[backup_dir].items[i].type = "directory"
        /\ mf[backup_dir].items[i].source = path

\* C23: clean_workspace deletes nothing from a workspace unless a backup of
\* that workspace directory was recorded first: when the backup fails it
\* returns False and the workspace is unchanged, and no call removes a
\* workspace item without a directory entry for that workspace in the
\* run's manifest.
C23_BackupBeforeWorkspaceDelete ==
    [][ rt'.calls = rt.calls + 1 =>
          /\ rt'.last.backup = "false" => rt'.last.ret = FALSE /\ files' = files
          /\ files' # files => HasDirectoryEntry(manifests', rt.dir, rt'.last.path) ]_vars

(***************************************************************************)
(* data_cleaner.py with the calls of the cleaner one at a time: a worker   *)
(* thread is started only when no other is alive, so discoveries and       *)
(* cleanups follow each other on the one status object.                    *)
(***************************************************************************)
SeqAutoDetect == LiveThreads = {} /\ AutoDetectPath
SeqStartDiscovery == LiveThreads = {} /\ StartDiscovery
SeqStartCleanup == LiveThreads = {} /\ StartCleanup

SeqNext ==
    \/ SeqAutoDetect \/ SeqStartDiscovery \/ SeqStartCleanup
    \/ DiscoverBegin \/ DiscoverStage
    \/ CleanupBegin \/ CleanupStep \/ CleanupFinish
    \/ CallReturns \/ WorkerExit

SpecSequential == SpecGuiInit /\ [][SeqNext]_vars

\* the calls of perform_cleanup that return in this step
Returning ==
    { t \in CallsUnderWay("cleanup") : cleaner'.calls[t].pc = "returned" }

\* C24: when perform_cleanup returns, status.success equals the returned
\* boolean, over any sequence of discoveries and cleanups on the same
\* cleaner: a run that completed with errors leaves status.success False
\* and a fully successful run leaves it True even after an earlier failure.
C24_SuccessFlagIsResult ==
    [][ \A t \in Returning : cleaner'.status.success = cleaner'.calls[t].ret ]_vars

\* C25: with discoveries and cleanups run one at a time,
\* 0 <= completed_steps <= total_steps and, whenever total_steps > 0,
\* progress equals completed_steps / total_steps.
C25_ProgressIsRatio ==
    /\ 0 <= cleaner.status.completed_steps
    /\ cleaner.status.completed_steps <= cleaner.status.total_steps
    /\ cleaner.status.total_steps > 0 =>
          cleaner.status.progress[1] * cleaner.status.total_steps
              = cleaner.status.completed_steps * cleaner.status.progress[2]

(***************************************************************************)
(* backup_manager.py over several runs: each run starts with               *)
(* create_timestamped_backup_dir and then backs files up into the          *)
(* directory it was given, while the clock goes on.                        *)
(***************************************************************************)
\* backup runs of one session
MaxRuns == 2

BrIdle == [pc |-> "start", dir |-> 0, runs |-> 0, calls |-> 0]

BrInit ==
    /\ \E fs \in [AllPaths -> {ConfigFile("old_a", <<"a", "@", "x", ".", "i", "o">>),
                               DbFile(<<"log">>), Absent}] :
         /\ \A p \in Paths : fs[p] # DbFile(<<"log">>)
         /\ \A p \in DbPaths : fs[p] # ConfigFile("old_a", <<"a", "@", "x", ".", "i", "o">>)
         /\ files = fs
    /\ clock = 0
    /\ dirs = {}
    /\ manifests = [d \in DirIds |-> NoManifest]
    /\ store = [d \in Dests |-> Absent]
    /\ rt = BrIdle
    /\ dbc = DbcIdle
    /\ run = RunIdle
    /\ gui = GuiInit
    /\ acct = AcctIdle
    /\ cleaner = CleanerInit
    /\ term = TermIdle
    /\ cfg = CfgIdle

\* a second passes
BrTick ==
    /\ clock < MaxClock
    /\ clock' = clock + 1
    /\ UNCHANGED <<files, dirs, manifests, store, rt, dbc, run, gui, acct, cleaner, term, cfg>>

\* a run starts: create_timestamped_backup_dir
BrCreateDir ==
    /\ rt.runs < MaxRuns
    /\ \E writeOk \in BOOLEAN :
         LET r == CreateTimestampedBackupDir(dirs, manifests, clock, writeOk) IN
         /\ dirs' = r.dirs
         /\ manifests' = r.manifests
         /\ rt' = [rt EXCEPT !.pc = "dir", !.dir = r.dir, !.runs = @ + 1, !.calls = 0]
    /\ UNCHANGED <<files, clock, store, dbc, run, gui, acct, cleaner, term, cfg>>

\* the run backs a file up
BrBackupFile ==
    /\ rt.pc = "dir"
    /\ rt.calls < MaxCalls
    /\ \E f \in Paths :
       \E fault \in {"none", "copy"} :
         LET r == BackupFile(files, store, manifests, f, rt.dir, None, fault) IN
         /\ store' = r.store
         /\ manifests' = r.manifests
         /\ rt' = [rt EXCEPT !.calls = @ + 1]
    /\ UNCHANGED <<files, clock, dirs, dbc, run, gui, acct, cleaner, term, cfg>>

BrNext == BrTick \/ BrCreateDir \/ BrBackupFile

SpecBackupRuns == BrInit /\ [][BrNext]_vars

\* C27: starting a new backup run never erases what an earlier run
\* recorded: a call of create_timestamped_backup_dir never returns a
\* directory an earlier call returned, also within the same second, and the
\* manifests of the earlier runs keep their entries.
C27_RunsNeverShare ==
    [][ rt'.runs = rt.runs + 1 =>
          /\ rt'.dir \notin dirs
          /\ \A d \in dirs : manifests'[d] = manifests[d] ]_vars

(***************************************************************************)
(* The result lists of terminate_augmentcode_processes (SpecTerminate).    *)
(***************************************************************************)
\* how often a process is listed in terminated and failed together
Listed(pid) ==
    Cardinality(EntriesOf(term.results.terminated, pid))
        + Cardinality(EntriesOf(term.results.failed, pid))

\* C28: every process passed to terminate ends up in exactly one of the
\* result lists terminated or failed: none is left out of the result and
\* none is listed twice.
C28_ListedExactlyOnce ==
    term.pc = "returned" =>
        \A i \in 1..Len(term.process_list) : Listed(term.process_list[i]) = 1

(***************************************************************************)
(* ide_manager.py: safe_terminate_processes on the processes the last scan *)
(* found, called again without a new scan in between.  The call of         *)
(* terminate_augmentcode_processes inside it advances by the steps above.  *)
(***************************************************************************)
IdeInit ==
    /\ files = [p \in AllPaths |-> Absent]
    /\ FsInit
    /\ rt = RtIdle
    /\ dbc = DbcIdle
    /\ run = RunIdle
    /\ gui = GuiInit
    /\ acct = AcctIdle
    /\ cleaner = CleanerInit
    /\ \E n \in 1..MaxProcs :
         \E alive \in [1..n -> BOOLEAN], denied \in [1..n -> BOOLEAN] :
           term = [ pc |-> "idle", force |-> FALSE,
                    running_processes |-> [i \in 1..n |-> i],
                    calls |-> 0, status |-> "none", attempted |-> <<>>,
                    process_list |-> <<>>, k |-> 1, elapsed |-> 0,
                    results |-> [terminated |-> <<>>, failed |-> <<>>, warnings |-> <<>>],
                    procs |-> [p \in 1..n |->
                                 [alive |-> alive[p], denied |-> denied[p], signals |-> <<>>]],
                    gone_at |-> [p \in 1..n |-> "none"],
                    timed_out |-> {},
                    waited |-> [p \in 1..n |-> 0] ]
    /\ cfg = CfgIdle

\* safe_terminate_processes up to the call of
\* terminate_augmentcode_processes, or its early return
SafeTerminateBegin ==
    /\ term.pc = "idle"
    /\ term.calls < MaxCalls
    /\ \E force \in BOOLEAN :
         term' = IF term.running_processes = <<>>
                 THEN [term EXCEPT !.status = "success", !.attempted = <<>>,
                                   !.force = force, !.calls = @ + 1]
                 ELSE [term EXCEPT !.pc = "construct", !.force = force,
                                   !.process_list = term.running_processes,
                                   !.k = 1, !.elapsed = 0,
                                   !.results = [terminated |-> <<>>, failed |-> <<>>,
                                                warnings |-> <<>>]]
    /\ UNCHANGED <<fsVars, rt, dbc, run, gui, acct, cleaner, cfg>>

\* safe_terminate_processes after the call: the process list is emptied and
\* the status is read off the failed list
SafeTerminateEnd ==
    /\ term.pc = "returned"
    /\ term' = [term EXCEPT !.pc = "idle",
                            !.running_processes = <<>>,
                            !.attempted = term.process_list,
                            !.status = IF term.results.failed = <<>>
                                       THEN "success" ELSE "partial",
                            !.calls = @ + 1]
    /\ UNCHANGED <<fsVars, rt, dbc, run, gui, acct, cleaner, cfg>>

IdeNext ==
    \/ SafeTerminateBegin \/ SafeTerminateEnd
    \/ ProcessExits \/ TermConstruct \/ TermIsRunning
    \/ TermSignal \/ TermWait \/ TermKill

SpecIde == IdeInit /\ [][IdeNext]_vars

\* the tracked processes that are still running
Unterminated == { p \in DOMAIN term.procs : term.procs[p].alive }

\* C29: safe_terminate_processes reports status success only when no
\* tracked process is left un-terminated: after a call in which some
\* process failed to terminate, a following call (with no new scan in
\* between) still attempts that process and does not report success with
\* nothing to do.
C29_SuccessOnlyWhenNoneLeft ==
    [][ term'.calls = term.calls + 1 =>
          /\ term'.status = "success" => Unterminated' = {}
          /\ \A p \in Unterminated :
                 \E i \in 1..Len(term'.attempted) : term'.attempted[i] = p ]_vars

(***************************************************************************)
(* The is_running flag of the status over the calls of perform_cleanup     *)
(* (SpecSequential).                                                       *)
(***************************************************************************)
\* C30: is_running is True from the start of perform_cleanup until it
\* returns and False once it has returned, on every path: full success,
\* completion with errors, and internal exception.
C30_RunningUntilReturn ==
    cleaner.status.is_running <=> CallsUnderWay("cleanup") # {}

\* C30: a perform_cleanup in which a sub-operation raised has returned
\* False, after an earlier step of it had completed while is_running held
C30_Witness ==
    \E t \in DOMAIN cleaner.calls :
        /\ cleaner.calls[t].op = "cleanup"
        /\ cleaner.calls[t].pc = "returned"
        /\ cleaner.calls[t].raised
        /\ cleaner.status.completed_steps >= 1
        /\ ~cleaner.status.is_running

====
